---- MODULE Spec2Model ----
(***************************************************************************)
(* A model of the Nitro stage0 compiler (ultimaweapon/nitro): the lexer,   *)
(* the type resolver, symbol mangling, function lowering and the package   *)
(* container.  Every definition is translated from the Rust source under   *)
(* src/stage0/src.                                                         *)
(***************************************************************************)
EXTENDS Integers, Sequences, FiniteSets, TLC

None == "None"

\* ------------------------------------------------------------------------
\* Bounds of the model.
\* ------------------------------------------------------------------------

\* Longest source text, in characters, handed to the lexer.
MaxSrcLen == 3

\* Most `use` declarations in one source file.
MaxUses == 2

\* Most calls of Function::mangle whose symbols are compared.
MaxMangled == 2

\* Most libraries of a package, type declarations of a library and
\* dependencies of a library.
MaxLibs == 2

MaxTypes == 2

MaxDeps == 1

VARIABLES
    data,       \* Lexer::data, the source text as a sequence of characters
    next,       \* Lexer::next, a byte offset into data
    last,       \* Lexer::last, the span of the last token or None
    lexRes,     \* what the last call on the lexer returned
    toks,       \* the tokens handed out and not pushed back, oldest first
    undone,     \* the token (and the position after it) that the last undo() pushed back
    replay      \* undone, as it was when the last next() started

lexVars == <<data, next, last, lexRes, toks, undone, replay>>

VARIABLES
    namespace,  \* Codegen::namespace
    types,      \* TypeResolver::types, a map from full names to resolved types
    uses,       \* the `use` declarations of the source file, in declaration order
    resolved,   \* what the last resolve of a type name returned
    used        \* what the last Use::parse returned, and the tokens it was given

resVars == <<namespace, types, uses, resolved, used>>

VARIABLES
    symbols     \* the calls of Function::mangle made so far: arguments and symbol

mangleVars == <<symbols>>

VARIABLES
    package,    \* the Package handed to pack: meta, exes and libs
    file,       \* the bytes of the package file, empty before pack
    unpacked    \* what unpack left in the destination directory

packVars == <<package, file, unpacked>>

\* ------------------------------------------------------------------------
\* Characters.  A character is a one-character string; "é" stands for a
\* two-byte alphabetic character, "#" for a character that starts no token.
\* ------------------------------------------------------------------------

Alphabet == {" ", "\n", ".", "@", "\"", "1", "i", "f", "é", "#"}

len_utf8(ch) == IF ch = "é" THEN 2 ELSE 1

\* A whitespace test that also swallows the full stop.
is_whitespace_or_stop(ch) == ch \in {" ", "\n", "."}

is_whitespace(ch) == ch \in {" ", "\n"}

is_ascii_digit(ch) == ch \in {"0", "1", "2", "3", "4", "5", "6", "7", "8", "9"}

is_alphanumeric(ch) == is_ascii_digit(ch) \/ ch \in {"i", "f", "é"}

is_ident(ch) == is_alphanumeric(ch) \/ ch = "_"

is_num(ch) == is_ascii_digit(ch) \/ ch = "."

\* The byte offset just after the first n characters of s.
RECURSIVE BytePos(_, _)
BytePos(s, n) == IF n = 0 THEN 0 ELSE BytePos(s, n - 1) + len_utf8(s[n])

ByteLen(s) == BytePos(s, Len(s))

\* The number of characters of s before byte offset off (off is a character boundary).
CharIdx(s, off) == CHOOSE n \in 0..Len(s) : BytePos(s, n) = off

\* Whether the byte of s at offset off is a line feed.
ByteIsNewline(s, off) ==
    \E n \in 1..Len(s) : BytePos(s, n - 1) = off /\ s[n] = "\n"

\* ------------------------------------------------------------------------
\* Span::new: panics when the offset is outside the source, when the byte
\* there is a line feed, or when the length is zero.
\* ------------------------------------------------------------------------

\* Option<Span>::None, and the outcome of a Span::new whose assertion fails.
NoSpan == [begin |-> -1, end |-> -1]

PanicSpan == [begin |-> -2, end |-> -2]

\* Span::new taking the length for the end.
SpanNew_EndIsLength(s, offset, length) ==
    IF offset >= ByteLen(s) \/ ByteIsNewline(s, offset) \/ length = 0
    THEN PanicSpan
    ELSE [begin |-> offset, end |-> length]

SpanNew(s, offset, length) ==
    IF offset >= ByteLen(s) \/ ByteIsNewline(s, offset) \/ length = 0
    THEN PanicSpan
    ELSE [begin |-> offset, end |-> offset + length]

Max(a, b) == IF a > b THEN a ELSE b

\* Add for &Span: the span from the lower begin to the higher end.
SpanAdd(a, b) ==
    [begin |-> IF a.begin < b.begin THEN a.begin ELSE b.begin, end |-> Max(a.end, b.end)]

\* ------------------------------------------------------------------------
\* Lexer::read: from character index n (characters already consumed), the
\* number of characters consumed once the predicate of class cls stops.
\* ------------------------------------------------------------------------

ReadPred(cls, ch) == IF cls = "ident" THEN is_ident(ch) ELSE is_num(ch)

RECURSIVE ReadEnd(_, _, _)
ReadEnd(cls, s, n) ==
    IF n < Len(s) /\ ReadPred(cls, s[n + 1]) THEN ReadEnd(cls, s, n + 1) ELSE n

\* The whitespace loop at the head of Lexer::next.
RECURSIVE SkipWhitespace(_, _)
SkipWhitespace(s, n) ==
    IF n < Len(s) /\ is_whitespace(s[n + 1]) THEN SkipWhitespace(s, n + 1) ELSE n

\* The string-literal loop: the index of the first line feed or quote after
\* the n characters consumed so far, or Len(s) + 1 when there is none.
RECURSIVE StringStop(_, _)
StringStop(s, n) ==
    IF n >= Len(s) THEN Len(s) + 1
    ELSE IF s[n + 1] \in {"\n", "\""} THEN n + 1
    ELSE StringStop(s, n + 1)

Slice(s, from, to) == SubSeq(s, from + 1, to)

CountOf(s, ch) == Cardinality({k \in 1..Len(s) : s[k] = ch})

\* u64 holds every literal of fewer than 20 digits; the model's sources are shorter.
MaxU64Digits == 20

\* Lexer::parse_num: the token kind, or "err" when str::parse fails.
parse_num(lit) ==
    IF CountOf(lit, ".") > 0
    THEN IF CountOf(lit, ".") = 1 THEN "FloatLiteral" ELSE "err"
    ELSE IF Len(lit) < MaxU64Digits THEN "UnsignedLiteral" ELSE "err"

\* Lexer::parse_ident: the keyword table.
parse_ident(ident) ==
    CASE ident = <<"i", "f">> -> "IfKeyword"
      [] ident = <<"f", "n">> -> "FnKeyword"
      [] ident = <<"i", "s">> -> "IsKeyword"
      [] OTHER -> "Identifier"

Punctuation(ch) ==
    CASE ch = "!" -> "ExclamationMark"
      [] ch = "=" -> "Equals"
      [] ch = "*" -> "Asterisk"
      [] ch = "." -> "FullStop"
      [] ch = "," -> "Comma"
      [] ch = ":" -> "Colon"
      [] ch = ";" -> "Semicolon"
      [] ch = "(" -> "OpenParenthesis"
      [] ch = ")" -> "CloseParenthesis"
      [] ch = "{" -> "OpenCurly"
      [] ch = "}" -> "CloseCurly"
      [] OTHER -> None

Tok(kind, span, nx) ==
    IF span = PanicSpan
    THEN [res |-> "panic", next |-> nx, why |-> "Span::new"]
    ELSE [res |-> "tok", kind |-> kind, span |-> span, next |-> nx]

Err(span, nx) ==
    IF span = PanicSpan
    THEN [res |-> "panic", next |-> nx, why |-> "Span::new"]
    ELSE [res |-> "err", span |-> span, next |-> nx]

\* The prefixed and the plain tokens of Lexer::next, after the punctuation check.
\* n characters are consumed, ch = s[n] is the character that starts the token.
NextWord(s, n, ch) ==
    LET nx == BytePos(s, n) IN
    CASE ch = "@" ->
            LET e    == ReadEnd("ident", s, n)
                name == BytePos(s, e) - nx
                span == SpanNew(s, (nx + name) - name - len_utf8(ch), name + len_utf8(ch))
            IN  IF span # PanicSpan /\ name = 0
                THEN Err(span, nx + name)
                ELSE Tok("AttributeName", span, nx + name)
      [] ch = "\"" ->
            LET start == nx - len_utf8(ch)
                m     == StringStop(s, n)
            IN  IF m > Len(s)
                THEN Err(SpanNew(s, start, ByteLen(s) - start), ByteLen(s))
                ELSE IF s[m] = "\n"
                THEN Err(SpanNew(s, start, BytePos(s, m) - len_utf8(s[m]) - start),
                         BytePos(s, m))
                ELSE Tok("StringLiteral", SpanNew(s, start, BytePos(s, m) - start),
                         BytePos(s, m))
      [] OTHER ->
            LET back == nx - len_utf8(ch) IN
            IF is_ascii_digit(ch)
            THEN LET e    == ReadEnd("num", s, n - 1)
                     lit  == Slice(s, n - 1, e)
                     nx2  == BytePos(s, e)
                     span == SpanNew(s, nx2 - (nx2 - back), nx2 - back)
                 IN  IF parse_num(lit) = "err"
                     THEN Err(span, nx2)
                     ELSE Tok(parse_num(lit), span, nx2)
            ELSE IF is_ident(ch)
            THEN LET e    == ReadEnd("ident", s, n - 1)
                     word == Slice(s, n - 1, e)
                     nx2  == BytePos(s, e)
                     span == SpanNew(s, nx2 - (nx2 - back), nx2 - back)
                 IN  Tok(parse_ident(word), span, nx2)
            ELSE [res |-> "panic", next |-> back, why |-> "todo!"]

\* Lexer::next, as a function of the source and of Lexer::next (a byte offset).
LexNext(s, off) ==
    LET n == SkipWhitespace(s, CharIdx(s, off)) IN
    IF n = Len(s)
    THEN [res |-> "eof", next |-> BytePos(s, n)]
    ELSE LET ch   == s[n + 1]
             nx   == BytePos(s, n + 1)
             span == SpanNew(s, nx - len_utf8(ch), len_utf8(ch))
         IN  IF Punctuation(ch) # None
             THEN Tok(Punctuation(ch), span, nx)
             ELSE IF span = PanicSpan
             THEN [res |-> "panic", next |-> nx, why |-> "Span::new"]
             ELSE NextWord(s, n + 1, ch)

\* Lexer::undo rewinding to the end of the token instead of its start.
UndoPos_End(span) == span.end

\* Lexer::undo: the position the lexer is rewound to.
UndoPos(span) == span.begin

\* ------------------------------------------------------------------------
\* The lexer as a state machine.
\* ------------------------------------------------------------------------

RECURSIVE Sources(_)
Sources(n) ==
    IF n = 0 THEN {<<>>}
    ELSE Sources(n - 1) \cup {Append(s, c) : s \in {t \in Sources(n - 1) : Len(t) = n - 1}, c \in Alphabet}

NoToken == [kind |-> None, span |-> NoSpan, next |-> -1]

\* Lexer::new
LexInit ==
    /\ data \in Sources(MaxSrcLen)
    /\ next = 0
    /\ last = NoSpan
    /\ lexRes = [res |-> "new"]
    /\ toks = <<>>
    /\ undone = NoToken
    /\ replay = NoToken

Running == lexRes.res \notin {"err", "panic"}

\* A call of Lexer::next.
Next_ ==
    /\ Running
    /\ LET r == LexNext(data, next) IN
        /\ lexRes' = r
        /\ next' = r.next
        /\ last' = IF r.res = "tok" THEN r.span ELSE last
        /\ toks' = IF r.res = "tok" THEN Append(toks, [kind |-> r.kind, span |-> r.span]) ELSE toks
    /\ replay' = undone
    /\ undone' = NoToken
    /\ UNCHANGED data

\* A call of Lexer::undo; unwrap() on an empty Lexer::last panics.
Undo ==
    /\ Running
    /\ IF last = NoSpan
       THEN /\ lexRes' = [res |-> "panic", next |-> next, why |-> "unwrap"]
            /\ UNCHANGED <<next, last, toks, undone>>
       ELSE /\ next' = UndoPos(last)
            /\ last' = NoSpan
            /\ toks' = SubSeq(toks, 1, Len(toks) - 1)
            /\ undone' = IF lexRes.res = "tok"
                         THEN [kind |-> lexRes.kind, span |-> lexRes.span, next |-> next]
                         ELSE NoToken
            /\ lexRes' = [res |-> "undo", next |-> UndoPos(last)]
    /\ replay' = NoToken
    /\ UNCHANGED data

LexStep == Next_ \/ Undo

\* ------------------------------------------------------------------------
\* Properties of the lexer.
\* ------------------------------------------------------------------------

\* C1: when next() returned a token, undo() was called right after it and
\* next() is called again, that call returns a token of the same kind and
\* span and leaves Lexer::next where the first call left it.
C1_UndoReplays ==
    replay # NoToken =>
        /\ lexRes.res = "tok"
        /\ lexRes.kind = replay.kind
        /\ lexRes.span = replay.span
        /\ next = replay.next

\* A replayed token that is not the first token of the source.
C1_Witness ==
    /\ replay # NoToken
    /\ lexRes.res = "tok"
    /\ Len(toks) >= 2
    /\ lexRes.span.end - lexRes.span.begin >= 2

\* The character of s that owns the byte at offset b.
CharOfByte(s, b) == s[CHOOSE n \in 1..Len(s) : BytePos(s, n - 1) <= b /\ b < BytePos(s, n)]

IsBoundary(s, off) == \E n \in 0..Len(s) : BytePos(s, n) = off

Covered(b) == \E k \in 1..Len(toks) : toks[k].span.begin <= b /\ b < toks[k].span.end

\* The source rebuilt from the token slices and the whitespace between them,
\* up to byte offset upto: token k contributes its slice, a gap contributes
\* its bytes only when they are whitespace.
RECURSIVE Rebuild(_, _)
Rebuild(k, from) ==
    IF k > Len(toks)
    THEN Slice(data, CharIdx(data, from), CharIdx(data, next))
    ELSE Slice(data, CharIdx(data, from), CharIdx(data, toks[k].span.begin))
         \o Slice(data, CharIdx(data, toks[k].span.begin), CharIdx(data, toks[k].span.end))
         \o Rebuild(k + 1, toks[k].span.end)

\* C2: while the source tokenizes without error, the spans handed out are
\* non-empty, strictly increasing and non-overlapping, every byte before
\* Lexer::next that no span covers is whitespace, and once next() reports
\* the end of the source the slices and the whitespace between them make up
\* the whole source.
C2_SpansTileSource ==
    Running =>
        /\ \A k \in 1..Len(toks) :
              /\ toks[k].span.begin < toks[k].span.end
              /\ toks[k].span.end <= next
              /\ IsBoundary(data, toks[k].span.begin)
              /\ IsBoundary(data, toks[k].span.end)
              /\ k < Len(toks) => toks[k].span.end <= toks[k + 1].span.begin
        /\ \A b \in 0..(next - 1) :
              ~Covered(b) => CharOfByte(data, b) \in {" ", "\n"}
        /\ lexRes.res = "eof" =>
              /\ next = ByteLen(data)
              /\ Rebuild(1, 0) = data

\* A whole source read to its end: two tokens with whitespace between them.
C2_Witness ==
    /\ lexRes.res = "eof"
    /\ Len(toks) = 2
    /\ toks[1].span.end < toks[2].span.begin
    /\ Len(data) = MaxSrcLen

\* ------------------------------------------------------------------------
\* Type resolution: Path, Use, TypeResolver, Type::resolve, Codegen::resolve.
\* A Path is the sequence of its identifiers; the full stops between them
\* are put back by its Display.
\* ------------------------------------------------------------------------

\* impl Display for Path
RECURSIVE PathToString(_)
PathToString(path) ==
    IF Len(path) = 1 THEN path[1]
    ELSE PathToString(SubSeq(path, 1, Len(path) - 1)) \o "." \o path[Len(path)]

\* Path::as_local
as_local(path) == IF Len(path) = 1 THEN path[1] ELSE None

\* Path::last
PathLast(path) == path[Len(path)]

\* Whether a `use` declaration names the identifier: the test both resolvers apply.
UseMatches(u, name) ==
    IF u.rename # None THEN u.rename = name ELSE PathLast(u.name) = name

\* The loop of a resolver that stops at the first matching declaration.
RECURSIVE ScanFirst(_, _, _)
ScanFirst(us, i, name) ==
    IF i > Len(us) THEN 0
    ELSE IF UseMatches(us[i], name) THEN i
    ELSE ScanFirst(us, i + 1, name)

FindUse_First(us, name) == ScanFirst(us, 1, name)

\* The loop of Type::resolve: every declaration is visited in order and a
\* match overwrites found.  The index of the declaration found, 0 for none.
RECURSIVE ScanForward(_, _, _, _)
ScanForward(us, i, name, found) ==
    IF i > Len(us) THEN found
    ELSE ScanForward(us, i + 1, name, IF UseMatches(us[i], name) THEN i ELSE found)

FindUse(us, name) == ScanForward(us, 1, name, 0)

\* The loop of Codegen::resolve: the declarations are visited in reverse and
\* the first match breaks out.
RECURSIVE ScanReverse(_, _, _)
ScanReverse(us, i, name) ==
    IF i = 0 THEN 0
    ELSE IF UseMatches(us[i], name) THEN i
    ELSE ScanReverse(us, i - 1, name)

\* The full name both resolvers build from the declaration found.
FullName(us, ns, path, found) ==
    IF as_local(path) # None
    THEN IF found # 0 THEN PathToString(us[found].name)
         ELSE IF ns = "" THEN "self." \o as_local(path)
         ELSE "self." \o ns \o "." \o as_local(path)
    ELSE PathToString(path)

Undefined == [kind |-> "Undefined", pkg |-> "", name |-> ""]

\* TypeResolver::resolve
ResolverResolve(ts, key) == IF key \in DOMAIN ts THEN ts[key] ELSE Undefined

\* Type::resolve
TypeResolve(ts, us, ns, path) ==
    LET full == FullName(us, ns, path,
                         IF as_local(path) # None THEN FindUse(us, as_local(path)) ELSE 0)
    IN  [name |-> full, ty |-> ResolverResolve(ts, full)]

\* Codegen::resolve
CodegenResolve(ts, us, ns, path) ==
    LET full == FullName(us, ns, path,
                         IF as_local(path) # None
                         THEN ScanReverse(us, Len(us), as_local(path)) ELSE 0)
    IN  [name |-> full, ty |-> ResolverResolve(ts, full)]

Namespaces == {"", "n"}

InternalNames == {"X", "Y", "n.X"}

ExternalNames == {"X", "Y"}

\* A token of the lexer by its text; `as` is no keyword of the lexer.
IsIdentifier(t) == t \notin {".", ";", "self", "*"}

UseFailed(msg) == [ok |-> FALSE, name |-> << >>, rename |-> None, msg |-> msg]

\* Use::parse, the loop over the remaining path: the tokens from i on,
\* with the path read so far.
RECURSIVE UseRest(_, _, _)
UseRest(ts, i, name) ==
    IF i > Len(ts) THEN UseFailed("expect ';' after this")
    ELSE IF ts[i] = "."
    THEN IF i + 1 > Len(ts) THEN UseFailed("expect an identifer after this")
         ELSE IF IsIdentifier(ts[i + 1]) THEN UseRest(ts, i + 2, Append(name, ts[i + 1]))
         ELSE UseFailed("expect an identifer")
    ELSE IF ts[i] = ";"
    THEN [ok |-> TRUE, name |-> name, rename |-> None, msg |-> ""]
    ELSE UseFailed("expect ';'")

\* Use::parse on the tokens after the `use` keyword; the path is kept as
\* its identifiers.
UseParse(ts) ==
    IF Len(ts) < 1 THEN UseFailed("expect an identifer or self keyword after this")
    ELSE IF ~(ts[1] = "self" \/ IsIdentifier(ts[1]))
    THEN UseFailed("expect an identifer or self keyword")
    ELSE IF Len(ts) < 2 THEN UseFailed("expect '.' after this")
    ELSE IF ts[2] # "." THEN UseFailed("expect '.'")
    ELSE IF Len(ts) < 3 THEN UseFailed("expect an identifer after this")
    ELSE IF ~IsIdentifier(ts[3]) THEN UseFailed("expect an identifer")
    ELSE UseRest(ts, 4, <<ts[1], ts[3]>>)

\* The tokens after a `use` keyword in the source files.
UseSources ==
    { <<"a", ".", "X", ";">>,
      <<"a", ".", "Y", ";">>,
      <<"self", ".", "n", ".", "X", ";">>,
      <<"a", ".", "b", ".", "Bar", ";">>,
      <<"a", ".", "Y", "as", "X", ";">>,
      <<"a", ".", "b", ".", "Bar", "as", "Foo", ";">>,
      << >>,
      <<";">>,
      <<"a">>,
      <<"a", ";">>,
      <<"a", ".">>,
      <<"a", ".", "self", ";">>,
      <<"a", ".", "X">>,
      <<"a", ".", "X", ".">>,
      <<"a", ".", "X", ".", ";">>,
      <<"a", ".", "X", "*", ";">> }

NoUse == [src |-> << >>, res |-> "none", name |-> << >>, rename |-> None, msg |-> ""]

TypeNames == { <<"X">>, <<"Y">>, <<"a", "X">> }

NoResolve == [path |-> <<>>, ty |-> [name |-> "", ty |-> Undefined],
              cg |-> [name |-> "", ty |-> Undefined]]

\* Codegen::new with TypeResolver::new, before any source file is read.
ResInit ==
    /\ namespace = ""
    /\ types = << >>
    /\ uses = << >>
    /\ resolved = NoResolve
    /\ used = NoUse

\* Codegen::set_namespace
set_namespace ==
    \E ns \in Namespaces :
        /\ used.res # "err"
        /\ namespace' = ns
        /\ resolved' = NoResolve
        /\ UNCHANGED <<types, uses, used>>

\* TypeResolver::populate_internal_types, one type of the set; the assert
\* rules out a key that is already there.
populate_internal_types ==
    \E n \in InternalNames :
        LET key == "self." \o n IN
        /\ used.res # "err"
        /\ key \notin DOMAIN types
        /\ types' = types @@ (key :> [kind |-> "Internal", pkg |-> "", name |-> n])
        /\ resolved' = NoResolve
        /\ UNCHANGED <<namespace, uses, used>>

\* TypeResolver::populate_external_types, one type of package "a".
populate_external_types ==
    \E n \in ExternalNames :
        LET key == "a" \o "." \o n IN
        /\ used.res # "err"
        /\ key \notin DOMAIN types
        /\ types' = types @@ (key :> [kind |-> "External", pkg |-> "a", name |-> n])
        /\ resolved' = NoResolve
        /\ UNCHANGED <<namespace, uses, used>>

\* The result u of Use::parse on the tokens src: the declaration joins
\* those of the file, and a SyntaxError ends the compilation.
Used(src, u) ==
    /\ used' = [src |-> src, res |-> IF u.ok THEN "ok" ELSE "err",
                name |-> u.name, rename |-> u.rename, msg |-> u.msg]
    /\ uses' = IF u.ok THEN Append(uses, [name |-> u.name, rename |-> u.rename])
               ELSE uses

\* One more `use` declaration of the source file.
UseDecl ==
    \E src \in UseSources :
        /\ used.res # "err"
        /\ Len(uses) < MaxUses
        /\ Used(src, UseParse(src))
        /\ resolved' = NoResolve
        /\ UNCHANGED <<namespace, types>>

\* A type name of the file is resolved, by Type::resolve and by Codegen::resolve.
Resolve ==
    \E path \in TypeNames :
        /\ used.res # "err"
        /\ resolved' = [path |-> path,
                        ty |-> TypeResolve(types, uses, namespace, path),
                        cg |-> CodegenResolve(types, uses, namespace, path)]
        /\ UNCHANGED <<namespace, types, uses, used>>

ResStep ==
    \/ set_namespace
    \/ populate_internal_types
    \/ populate_external_types
    \/ UseDecl
    \/ Resolve

\* ------------------------------------------------------------------------
\* Symbol mangling: Function::mangle, Type::mangle, Type::mangle_basic.
\* A dotted name is held as the sequence of its segments, which is what
\* split('.') makes of it; a symbol is the string the writes build up.
\* ------------------------------------------------------------------------

NoPkg == [some |-> FALSE, name |-> "", ver |-> 0]

SomePkg(name, ver) == [some |-> TRUE, name |-> name, ver |-> ver]

UnitType(ptr) == [tag |-> "Unit", ptr |-> ptr, pkg |-> NoPkg, name |-> << >>]

NeverType == [tag |-> "Never", ptr |-> 0, pkg |-> NoPkg, name |-> << >>]

StructType(ptr, pkg, name) == [tag |-> "Struct", ptr |-> ptr, pkg |-> pkg, name |-> name]

ClassType(ptr, pkg, name) == [tag |-> "Class", ptr |-> ptr, pkg |-> pkg, name |-> name]

\* for _ in 0..ptr { buf.push('P') }
RECURSIVE Pointers(_)
Pointers(ptr) == IF ptr = 0 THEN "" ELSE "P" \o Pointers(ptr - 1)

\* for p in name.split('.') { write!(buf, "{}{}", p.len(), p) }
RECURSIVE Segments(_)
Segments(segs) ==
    IF segs = << >> THEN ""
    ELSE ToString(Len(Head(segs))) \o Head(segs) \o Segments(Tail(segs))

\* Type::mangle_basic
mangle_basic(class, ptr, pkg, name) ==
    Pointers(ptr)
    \o (IF class THEN "C" ELSE "S")
    \o (IF pkg.some
        THEN "E" \o ToString(Len(pkg.name)) \o pkg.name
             \o (IF pkg.ver # 0 THEN "V" \o ToString(pkg.ver) \o "T" ELSE "T")
        ELSE "S")
    \o Segments(name)

\* Type::mangle
TypeMangle(t) ==
    CASE t.tag = "Unit" -> Pointers(t.ptr) \o "U"
      [] t.tag = "Never" -> "N"
      [] t.tag = "Struct" -> mangle_basic(FALSE, t.ptr, t.pkg, t.name)
      [] t.tag = "Class" -> mangle_basic(TRUE, t.ptr, t.pkg, t.name)

RECURSIVE ParamsMangle(_)
ParamsMangle(params) ==
    IF params = << >> THEN ""
    ELSE TypeMangle(Head(params)) \o ParamsMangle(Tail(params))

\* A mangle that writes the parameters before the return type.
FunctionMangle_ParamsFirst(f, lib, ty) ==
    (IF lib.some
     THEN "_NEF" \o ToString(Len(lib.name)) \o lib.name
          \o (IF lib.ver # 0 THEN "V" \o ToString(lib.ver) ELSE "")
          \o "T"
     ELSE "_NIF")
    \o Segments(ty)
    \o "F" \o ToString(Len(f.name)) \o f.name
    \o "0"
    \o ParamsMangle(f.params)
    \o TypeMangle(f.ret)

\* Function::mangle, of a function [name, ret, params] for library lib and
\* the type whose fully qualified name has the segments ty.
FunctionMangle(f, lib, ty) ==
    (IF lib.some
     THEN "_NEF" \o ToString(Len(lib.name)) \o lib.name
          \o (IF lib.ver # 0 THEN "V" \o ToString(lib.ver) ELSE "")
          \o "T"
     ELSE "_NIF")
    \o Segments(ty)
    \o "F" \o ToString(Len(f.name)) \o f.name
    \o "0"
    \o TypeMangle(f.ret)
    \o ParamsMangle(f.params)

\* The arguments the calls are drawn from.  File names become name
\* segments as they are, so a segment can begin with a digit.
MangleLibs == {NoPkg, SomePkg("a", 0), SomePkg("a", 1)}

MangleTypes == { <<"0">>, <<"F1f0USS7xy">>, <<"n", "T">> }

MangleFuncs ==
    [ name   : {"f", "g"},
      ret    : {UnitType(0), NeverType, StructType(0, SomePkg("a", 1), <<"T">>)},
      params : { << >>,
                 <<StructType(0, NoPkg, <<"xyF1g0U">>)>>,
                 <<StructType(1, SomePkg("b", 0), <<"n", "T">>),
                   ClassType(0, SomePkg("a", 1), <<"T">>)>>,
                 <<UnitType(1), ClassType(0, NoPkg, <<"n", "T">>)>> } ]

MangleInit == symbols = {}

\* One call of Function::mangle.
Mangle ==
    \E f \in MangleFuncs, lib \in MangleLibs, ty \in MangleTypes :
        /\ Cardinality(symbols) < MaxMangled
        /\ symbols' = symbols \cup
              {[func |-> f, lib |-> lib, ty |-> ty, symbol |-> FunctionMangle(f, lib, ty)]}

MangleStep == Mangle

\* ------------------------------------------------------------------------
\* The package container, byte by byte.  A byte is a number in 0..255, a
\* string the sequence of its bytes, a HashSet or HashMap the sequence of
\* its elements in the order its iterator yields them.
\* ------------------------------------------------------------------------

RECURSIVE Zeros(_)
Zeros(n) == IF n = 0 THEN << >> ELSE <<0>> \o Zeros(n - 1)

Range(q) == {q[i] : i \in 1..Len(q)}

Reverse(q) == [i \in 1..Len(q) |-> q[Len(q) + 1 - i]]

Min(a, b) == IF a < b THEN a ELSE b

\* u16::to_be_bytes and u16::from_be_bytes
U16Bytes(n) == <<(n \div 256) % 256, n % 256>>

U16From(b) == b[1] * 256 + b[2]

\* u32::to_be_bytes and u32::from_be_bytes, for the lengths below 2^31 the model meets
U32Bytes(n) == <<(n \div 16777216) % 256, (n \div 65536) % 256, (n \div 256) % 256, n % 256>>

U32From(b) == b[1] * 16777216 + b[2] * 65536 + b[3] * 256 + b[4]

\* A u64 is held as its four 16-bit digits, most significant first.
U64Bytes(d) == U16Bytes(d[1]) \o U16Bytes(d[2]) \o U16Bytes(d[3]) \o U16Bytes(d[4])

U64From(b) == <<U16From(SubSeq(b, 1, 2)), U16From(SubSeq(b, 3, 4)),
                U16From(SubSeq(b, 5, 6)), U16From(SubSeq(b, 7, 8))>>

\* PackageName::to_bin
NameToBin(name) == name \o Zeros(32 - Len(name))

IsLower(b) == b >= 97 /\ b <= 122

IsDigit(b) == b >= 48 /\ b <= 57

\* A from_str that does not look at the first byte on its own.
NameFromStr_AnyFirst(str) ==
    IF /\ Len(str) >= 1
       /\ Len(str) <= 32
       /\ \A i \in 1..Len(str) : IsDigit(str[i]) \/ IsLower(str[i])
    THEN [ok |-> TRUE, val |-> str]
    ELSE [ok |-> FALSE, val |-> << >>]

\* PackageName::from_str: [ok, val]
NameFromStr(str) ==
    IF /\ Len(str) >= 1
       /\ Len(str) <= 32
       /\ IsLower(str[1])
       /\ \A i \in 2..Len(str) : IsDigit(str[i]) \/ IsLower(str[i])
    THEN [ok |-> TRUE, val |-> str]
    ELSE [ok |-> FALSE, val |-> << >>]

\* PackageName::from_bin (a byte above 127 fails from_utf8; the model's names are ASCII)
NameFromBin(bin) ==
    LET zeros == {i \in 1..32 : bin[i] = 0}
        len   == IF zeros = {} THEN 32 ELSE (CHOOSE i \in zeros : \A j \in zeros : i <= j) - 1
    IN  IF \E i \in 1..len : bin[i] > 127
        THEN [ok |-> FALSE, val |-> << >>]
        ELSE NameFromStr(SubSeq(bin, 1, len))

\* PackageVersion::to_bin: (major << 32) | (minor << 16) | patch
VersionToBin(v) == <<0, v.major, v.minor, v.patch>>

VersionFromBin_Shifted(d) == [major |-> d[1], minor |-> d[2], patch |-> d[3]]

\* PackageVersion::from_bin
VersionFromBin(d) == [major |-> d[2], minor |-> d[3], patch |-> d[4]]

\* Dependency::serialize
DependencySerialize(dep) == NameToBin(dep.name) \o U64Bytes(VersionToBin(dep.version))

\* pkg::Type::serialize
TypeSerialize(t) ==
    CASE t.tag = "Unit" -> <<0, t.ptr>>
      [] t.tag = "Never" -> <<3>>
      [] OTHER ->
            <<IF t.tag = "Struct" THEN 1 ELSE 2>>
            \o <<t.ptr>>
            \o (IF t.pkg.some
                THEN <<Len(t.pkg.name)>> \o t.pkg.name \o U16Bytes(t.pkg.ver)
                ELSE <<0>>)
            \o U16Bytes(Len(t.name)) \o t.name

\* FunctionParam::serialize
ParamSerialize(prm) ==
    <<1, Len(prm.name)>> \o prm.name \o <<2>> \o TypeSerialize(prm.ty) \o <<0>>

RECURSIVE ParamsSerialize(_)
ParamsSerialize(params) ==
    IF params = << >> THEN << >>
    ELSE ParamSerialize(Head(params)) \o ParamsSerialize(Tail(params))

\* pkg::Function::serialize
FunctionSerialize(f) ==
    <<1>> \o U16Bytes(Len(f.name)) \o f.name
    \o <<2>> \o TypeSerialize(f.ret)
    \o <<3, Len(f.params)>> \o ParamsSerialize(f.params)
    \o <<0>>

RECURSIVE FunctionsSerialize(_)
FunctionsSerialize(funcs) ==
    IF funcs = << >> THEN << >>
    ELSE FunctionSerialize(Head(funcs)) \o FunctionsSerialize(Tail(funcs))

\* TypeDeclaration::serialize; the attributes of the type are not written.
DeclSerialize(decl) ==
    <<1>> \o U16Bytes(Len(decl.name)) \o decl.name
    \o <<IF decl.is_class THEN 3 ELSE 2>>
    \o <<4>> \o U32Bytes(Len(decl.funcs)) \o FunctionsSerialize(decl.funcs)
    \o <<0>>

RECURSIVE DeclsSerialize(_)
DeclsSerialize(decls) ==
    IF decls = << >> THEN << >>
    ELSE DeclSerialize(Head(decls)) \o DeclsSerialize(Tail(decls))

\* ------------------------------------------------------------------------
\* Readers.  A reader is the bytes b and the count p of those consumed; a
\* deserializer returns [ok, err, val, p].
\* ------------------------------------------------------------------------

\* Whether read_exact of n bytes succeeds, and what it reads.
Has(b, p, n) == p + n <= Len(b)

Take(b, p, n) == SubSeq(b, p + 1, p + n)

\* String::from_utf8 on the model's strings, which are ASCII.
IsUtf8(str) == \A i \in 1..Len(str) : str[i] <= 127

Failed(err) == [ok |-> FALSE, err |-> err, val |-> << >>, p |-> 0]

Done(val, p) == [ok |-> TRUE, err |-> "", val |-> val, p |-> p]

\* The ? operator: the continuation K on success, the error as it is, or
\* the error a map_err puts in its place.
Try(r, K(_)) == IF r.ok THEN K(r) ELSE r

TryOr(r, err, K(_)) == IF r.ok THEN K(r) ELSE Failed(err)

NoBytes == [some |-> FALSE, val |-> << >>]

SomeBytes(str) == [some |-> TRUE, val |-> str]

\* Dependency::deserialize
DependencyDeserialize(b, p) ==
    IF ~Has(b, p, 32) THEN Failed("ReadFailed")
    ELSE LET name == NameFromBin(Take(b, p, 32)) IN
         IF ~name.ok THEN Failed("InvalidName")
         ELSE IF ~Has(b, p + 32, 8) THEN Failed("ReadFailed")
         ELSE Done([name |-> name.val,
                    version |-> VersionFromBin(U64From(Take(b, p + 32, 8)))], p + 40)

\* The name that ends pkg::Type::deserialize: a u16 length and that many bytes.
TypeNameDeserialize(b, p, cat, ptr, pkg) ==
    IF ~Has(b, p, 2) THEN Failed("None")
    ELSE LET len == U16From(Take(b, p, 2)) IN
         IF ~Has(b, p + 2, len) \/ ~IsUtf8(Take(b, p + 2, len)) THEN Failed("None")
         ELSE IF cat = 1 THEN Done(StructType(ptr, pkg, Take(b, p + 2, len)), p + 2 + len)
         ELSE IF cat = 2 THEN Done(ClassType(ptr, pkg, Take(b, p + 2, len)), p + 2 + len)
         ELSE Failed("None")

\* pkg::Type::deserialize
TypeDeserialize(b, p) ==
    IF ~Has(b, p, 1) THEN Failed("None")
    ELSE LET cat == b[p + 1] IN
         IF cat = 3 THEN Done(NeverType, p + 1)
         ELSE IF ~Has(b, p + 1, 1) THEN Failed("None")
         ELSE LET ptr == b[p + 2] IN
              IF cat = 0 THEN Done(UnitType(ptr), p + 2)
              ELSE IF ~Has(b, p + 2, 1) THEN Failed("None")
              ELSE LET len == b[p + 3] IN
                   IF len = 0 THEN TypeNameDeserialize(b, p + 3, cat, ptr, NoPkg)
                   ELSE IF ~Has(b, p + 3, len) \/ ~IsUtf8(Take(b, p + 3, len))
                           \/ ~Has(b, p + 3 + len, 2)
                   THEN Failed("None")
                   ELSE TypeNameDeserialize(b, p + 3 + len + 2, cat, ptr,
                            SomePkg(Take(b, p + 3, len), U16From(Take(b, p + 3 + len, 2))))

\* The entry loop of FunctionParam::deserialize.
RECURSIVE ParamEntries(_, _, _, _)
ParamEntries(b, p, name, ty) ==
    IF ~Has(b, p, 1) THEN Failed("ReadFailed")
    ELSE LET entry == b[p + 1] IN
         CASE entry = 0 ->
                IF ~name.some THEN Failed("ParamNameNotFound")
                ELSE IF ~ty.some THEN Failed("ParamTypeNotFound")
                ELSE Done([name |-> name.val, ty |-> ty.val], p + 1)
           [] entry = 1 ->
                IF ~Has(b, p + 1, 1) THEN Failed("ReadFailed")
                ELSE LET len == b[p + 2] IN
                     IF ~Has(b, p + 2, len) THEN Failed("ReadFailed")
                     ELSE IF ~IsUtf8(Take(b, p + 2, len)) THEN Failed("InvalidParamName")
                     ELSE ParamEntries(b, p + 2 + len, SomeBytes(Take(b, p + 2, len)), ty)
           [] entry = 2 ->
                TryOr(TypeDeserialize(b, p + 1), "InvalidParamType",
                      LAMBDA t : ParamEntries(b, t.p, name, [some |-> TRUE, val |-> t.val]))
           [] OTHER -> Failed("UnknownParamEntry")

\* FunctionParam::deserialize
ParamDeserialize(b, p) == ParamEntries(b, p, NoBytes, NoBytes)

\* for p in 0..count { params.push(FunctionParam::deserialize(..)?) }
RECURSIVE ParamsDeserialize(_, _, _, _)
ParamsDeserialize(b, p, count, params) ==
    IF count = 0 THEN Done(params, p)
    ELSE Try(ParamDeserialize(b, p),
             LAMBDA prm : ParamsDeserialize(b, prm.p, count - 1, Append(params, prm.val)))

\* The entry loop of pkg::Function::deserialize.
RECURSIVE FunctionEntries(_, _, _, _, _)
FunctionEntries(b, p, name, params, ret) ==
    IF ~Has(b, p, 1) THEN Failed("ReadFailed")
    ELSE LET ty == b[p + 1] IN
         CASE ty = 0 ->
                IF ~name.some THEN Failed("FunctionNameNotFound")
                ELSE IF ~ret.some THEN Failed("FunctionNameRetFound")
                ELSE Done([name |-> name.val, params |-> params, ret |-> ret.val], p + 1)
           [] ty = 1 ->
                IF ~Has(b, p + 1, 2) THEN Failed("ReadFailed")
                ELSE LET len == U16From(Take(b, p + 1, 2)) IN
                     IF ~Has(b, p + 3, len) THEN Failed("ReadFailed")
                     ELSE IF ~IsUtf8(Take(b, p + 3, len)) THEN Failed("InvalidFunctionName")
                     ELSE FunctionEntries(b, p + 3 + len, SomeBytes(Take(b, p + 3, len)),
                                          params, ret)
           [] ty = 2 ->
                TryOr(TypeDeserialize(b, p + 1), "InvalidFunctionRet",
                      LAMBDA t : FunctionEntries(b, t.p, name, params,
                                                 [some |-> TRUE, val |-> t.val]))
           [] ty = 3 ->
                IF ~Has(b, p + 1, 1) THEN Failed("ReadFailed")
                ELSE Try(ParamsDeserialize(b, p + 2, b[p + 2], params),
                         LAMBDA ps : FunctionEntries(b, ps.p, name, ps.val, ret))
           [] OTHER -> Failed("UnknownFunctionEntry")

\* pkg::Function::deserialize
FunctionDeserialize(b, p) == FunctionEntries(b, p, NoBytes, << >>, NoBytes)

\* funcs.replace(Function::deserialize(..)?) for each of count functions; a
\* function equal to one already read (they compare by name) is an error.
RECURSIVE FunctionsDeserialize(_, _, _, _)
FunctionsDeserialize(b, p, count, funcs) ==
    IF count = 0 THEN Done(funcs, p)
    ELSE Try(FunctionDeserialize(b, p),
             LAMBDA f : IF \E i \in 1..Len(funcs) : funcs[i].name = f.val.name
                        THEN Failed("DuplicatedFunction")
                        ELSE FunctionsDeserialize(b, f.p, count - 1, Append(funcs, f.val)))

NoAttributes == [public |-> None, ext |-> None, repr |-> None]

\* The entry loop of TypeDeclaration::deserialize.
RECURSIVE DeclEntries(_, _, _, _, _, _)
DeclEntries(b, p, name, struc, class, funcs) ==
    IF ~Has(b, p, 1) THEN Failed("ReadFailed")
    ELSE LET entry == b[p + 1] IN
         CASE entry = 0 ->
                IF ~name.some THEN Failed("TypeNameNotFound")
                ELSE IF struc = class THEN Failed("Ambiguity")
                ELSE Done([is_class |-> class, attrs |-> NoAttributes,
                           name |-> name.val, funcs |-> funcs], p + 1)
           [] entry = 1 ->
                IF ~Has(b, p + 1, 2) THEN Failed("ReadFailed")
                ELSE LET len == U16From(Take(b, p + 1, 2)) IN
                     IF ~Has(b, p + 3, len) THEN Failed("ReadFailed")
                     ELSE IF ~IsUtf8(Take(b, p + 3, len)) THEN Failed("InvalidTypeName")
                     ELSE DeclEntries(b, p + 3 + len, SomeBytes(Take(b, p + 3, len)),
                                      struc, class, funcs)
           [] entry = 2 -> DeclEntries(b, p + 1, name, TRUE, class, funcs)
           [] entry = 3 -> DeclEntries(b, p + 1, name, struc, TRUE, funcs)
           [] entry = 4 ->
                IF ~Has(b, p + 1, 4) THEN Failed("ReadFailed")
                ELSE Try(FunctionsDeserialize(b, p + 5, U32From(Take(b, p + 1, 4)), funcs),
                         LAMBDA fs : DeclEntries(b, fs.p, name, struc, class, fs.val))
           [] OTHER -> Failed("UnknownTypeEntry")

\* TypeDeclaration::deserialize
DeclDeserialize(b, p) == DeclEntries(b, p, NoBytes, FALSE, FALSE, << >>)

\* ------------------------------------------------------------------------
\* Library::serialize, Library::unpack, Package::pack, Package::unpack.
\* ------------------------------------------------------------------------

\* ZstdWriter and ZstdReader wrap the zstd library; a frame is held as the
\* zstd magic number followed by the content, and decompression gives the
\* content back or fails on anything that is no frame.
ZstdWrite(bytes) == <<40, 181, 47, 253>> \o bytes

\* ZSTD_DStreamInSize(), the length of ZstdReader::buf, scaled down to the
\* frames of the model.
DStreamInSize == 8

\* A reader that drains its source whatever was asked of it.
ZstdConsumed_Drained(len, got, eof) == len

\* The bytes ZstdReader::read has taken from a source of len bytes when the
\* first got bytes of the content were read, or all of it up to the end
\* (eof): the buffer is refilled, whole or up to the end of the source,
\* each time the input is used up and more output is wanted.
ZstdConsumed(len, got, eof) ==
    IF eof THEN len
    ELSE Min(len, DStreamInSize * ((4 + got + DStreamInSize - 1) \div DStreamInSize))

ZstdRead(frame) ==
    IF Len(frame) >= 4 /\ SubSeq(frame, 1, 4) = <<40, 181, 47, 253>>
    THEN Done(SubSeq(frame, 5, Len(frame)), Len(frame))
    ELSE Failed("ReadFailed")

\* Library::serialize: bin.system tells LibraryBinary::System from Bundle,
\* bin.data is the name of the system library or the content of the bundled file.
LibrarySerialize(lib) ==
    <<127, 78, 76, 77>>
    \o <<1>> \o U32Bytes(Len(lib.types)) \o DeclsSerialize(lib.types)
    \o (IF lib.bin.system
        THEN <<2>> \o U16Bytes(Len(lib.bin.data)) \o lib.bin.data \o <<0>>
        ELSE <<0>> \o lib.bin.data)

\* The types of one ENTRY_TYPES: each is deserialized and serialized again
\* into the types file; rev picks the order in which the HashSet of its
\* functions is walked.
RECURSIVE UnpackDecls(_, _, _, _, _)
UnpackDecls(d, p, ntype, out, rev) ==
    IF ntype = 0 THEN Done(out, p)
    ELSE TryOr(DeclDeserialize(d, p), "ReadTypeFailed",
               LAMBDA ty : UnpackDecls(d, ty.p, ntype - 1,
                   out \o DeclSerialize([ty.val EXCEPT !.funcs = IF rev THEN Reverse(@) ELSE @]),
                   rev))

\* The entry loop of Library::unpack and the write of the binary after it.
RECURSIVE LibraryEntries(_, _, _, _, _)
LibraryEntries(d, p, typesFile, sys, rev) ==
    IF ~Has(d, p, 1) THEN Failed("ReadFailed")
    ELSE LET ty == d[p + 1] IN
         CASE ty = 0 ->
                Done([types |-> typesFile,
                      bin |-> IF sys.some THEN <<127, 78, 76, 83>> \o sys.val
                              ELSE SubSeq(d, p + 2, Len(d)),
                      eof |-> ~sys.some],
                     IF sys.some THEN p + 1 ELSE Len(d))
           [] ty = 1 ->
                IF ~Has(d, p + 1, 4) THEN Failed("ReadFailed")
                ELSE Try(UnpackDecls(d, p + 5, U32From(Take(d, p + 1, 4)), typesFile, rev),
                         LAMBDA ts : LibraryEntries(d, ts.p, ts.val, sys, rev))
           [] ty = 2 ->
                IF ~Has(d, p + 1, 2) THEN Failed("ReadFailed")
                ELSE LET len == U16From(Take(d, p + 1, 2)) IN
                     IF ~Has(d, p + 3, len) THEN Failed("ReadFailed")
                     ELSE IF ~IsUtf8(Take(d, p + 3, len)) THEN Failed("InvalidSystemName")
                     ELSE LibraryEntries(d, p + 3 + len, typesFile,
                                         SomeBytes(Take(d, p + 3, len)), rev)
           [] OTHER -> Failed("UnknownEntry")

\* Library::unpack
LibraryUnpack(d, rev) ==
    IF ~Has(d, 0, 4) THEN Failed("ReadFailed")
    ELSE IF Take(d, 0, 4) # <<127, 78, 76, 77>> THEN Failed("NotNitroLibrary")
    ELSE LibraryEntries(d, 4, << >>, NoBytes, rev)

RECURSIVE DependenciesSerialize(_)
DependenciesSerialize(deps) ==
    IF deps = << >> THEN << >>
    ELSE DependencySerialize(Head(deps)) \o DependenciesSerialize(Tail(deps))

\* A pack that leaves the placeholder of the length as it is.
Overwrite_Skipped(buf, off, bytes) == buf

\* file.seek(lenoff); file.write_all(bytes); file.seek(cur)
Overwrite(buf, off, bytes) ==
    [i \in 1..Len(buf) |-> IF i > off /\ i <= off + Len(bytes) THEN bytes[i - off] ELSE buf[i]]

\* The body of the loop over the libraries in Package::pack.
PackLibrary(buf, lib) ==
    LET head   == buf \o <<5>> \o lib.target
                      \o U16Bytes(Len(lib.deps)) \o DependenciesSerialize(lib.deps)
        lenoff == Len(head)
        body   == head \o Zeros(4) \o ZstdWrite(LibrarySerialize(lib))
        cur    == Len(body)
    IN  Overwrite(body, lenoff, U32Bytes(cur - lenoff - 4))

RECURSIVE PackLibraries(_, _)
PackLibraries(buf, libs) ==
    IF libs = << >> THEN buf
    ELSE PackLibraries(PackLibrary(buf, Head(libs)), Tail(libs))

\* Package::pack; date is the u64 of the seconds since the epoch.
Pack(pkg, date) ==
    PackLibraries(
        <<127, 78, 80, 75>>
        \o <<1>> \o NameToBin(pkg.meta.name)
        \o <<2>> \o U64Bytes(VersionToBin(pkg.meta.version))
        \o <<3>> \o U64Bytes(date),
        pkg.libs)
    \o <<0>>

RECURSIVE DependenciesDeserialize(_, _, _, _)
DependenciesDeserialize(b, p, ndep, deps) ==
    IF ndep = 0 THEN Done(deps, p)
    ELSE TryOr(DependencyDeserialize(b, p), "InvalidLibraryDependency",
               LAMBDA dep : DependenciesDeserialize(b, dep.p, ndep - 1, Append(deps, dep.val)))

\* The ENTRY_LIB arm of Package::unpack.  The library is read through
\* ZstdReader over pkg.take(len); the entry loop goes on after the bytes
\* the reader has taken from the package.
UnpackLibrary(b, p, libs, rev) ==
    IF ~Has(b, p, 16) THEN Failed("ReadFailed")
    ELSE IF \E i \in 1..Len(libs) : libs[i].target = Take(b, p, 16)
    THEN Failed("CreateDirectoryFailed")
    ELSE IF ~Has(b, p + 16, 2) THEN Failed("ReadFailed")
    ELSE Try(DependenciesDeserialize(b, p + 18, U16From(Take(b, p + 16, 2)), << >>),
             LAMBDA deps :
                IF ~Has(b, deps.p, 4) THEN Failed("ReadFailed")
                ELSE LET len == Min(U32From(Take(b, deps.p, 4)), Len(b) - (deps.p + 4)) IN
                     TryOr(Try(ZstdRead(Take(b, deps.p + 4, len)),
                               LAMBDA frame : LibraryUnpack(frame.val, rev)),
                           "UnpackLibraryFailed",
                           LAMBDA lib : Done(Append(libs, [target |-> Take(b, p, 16),
                                                           bin |-> lib.val.bin,
                                                           types |-> lib.val.types,
                                                           deps |-> deps.val,
                                                           len |-> U32From(Take(b, deps.p, 4)),
                                                           eaten |-> ZstdConsumed(len, lib.p, lib.val.eof)]),
                                             deps.p + 4 + ZstdConsumed(len, lib.p, lib.val.eof))))

\* The entry loop of Package::unpack and the write of meta.yml after it.
RECURSIVE PackageEntries(_, _, _, _, _, _)
PackageEntries(b, p, name, version, libs, rev) ==
    IF ~Has(b, p, 1) THEN Failed("ReadFailed")
    ELSE LET ty == b[p + 1] IN
         CASE ty = 0 ->
                IF ~name.some THEN Failed("NoNameEntry")
                ELSE IF ~version.some THEN Failed("NoVersionEntry")
                ELSE Done([meta |-> [name |-> name.val, version |-> version.val],
                           libs |-> libs], p + 1)
           [] ty = 1 ->
                IF ~Has(b, p + 1, 32) THEN Failed("ReadFailed")
                ELSE LET n == NameFromBin(Take(b, p + 1, 32)) IN
                     IF ~n.ok THEN Failed("InvalidNameEntry")
                     ELSE PackageEntries(b, p + 33, SomeBytes(n.val), version, libs, rev)
           [] ty = 2 ->
                IF ~Has(b, p + 1, 8) THEN Failed("ReadFailed")
                ELSE PackageEntries(b, p + 9, name,
                         [some |-> TRUE, val |-> VersionFromBin(U64From(Take(b, p + 1, 8)))],
                         libs, rev)
           [] ty = 3 ->
                IF ~Has(b, p + 1, 8) THEN Failed("ReadFailed")
                ELSE PackageEntries(b, p + 9, name, version, libs, rev)
           [] ty = 5 ->
                Try(UnpackLibrary(b, p + 1, libs, rev),
                    LAMBDA lib : PackageEntries(b, lib.p, name, version, lib.val, rev))
           [] OTHER -> [Failed("UnknownEntry") EXCEPT !.val = <<ty>>]

\* Package::unpack
Unpack(b, rev) ==
    IF ~Has(b, 0, 4) THEN Failed("ReadFailed")
    ELSE IF Take(b, 0, 4) # <<127, 78, 80, 75>> THEN Failed("NotNitroPackage")
    ELSE PackageEntries(b, 4, NoBytes, NoBytes, << >>, rev)

\* The loop of Library::open over the types file: declarations are read
\* until the file is exhausted.
RECURSIVE OpenTypes(_, _, _)
OpenTypes(b, p, decls) ==
    IF p = Len(b) THEN Done(decls, p)
    ELSE TryOr(DeclDeserialize(b, p), "ReadTypeFailed",
               LAMBDA ty : IF \E i \in 1..Len(decls) : decls[i].name = ty.val.name
                           THEN Failed("DuplicatedType")
                           ELSE OpenTypes(b, ty.p, Append(decls, ty.val)))

\* The packages, build dates and targets of the model.
LinuxId == <<223, 86, 241, 244, 139, 238, 72, 20, 182, 167, 232, 178, 31, 247, 38, 105>>

Win32Id == <<105, 214, 246, 229, 220, 76, 64, 141, 172, 184, 178, 166, 77, 178, 139, 139>>

\* "b1" and a name of 32 bytes, which leaves no zero byte in its entry.
PackageMetas ==
    { [name |-> <<98, 49>>, version |-> [major |-> 1, minor |-> 0, patch |-> 0]],
      [name |-> [i \in 1..32 |-> 97], version |-> [major |-> 0, minor |-> 2, patch |-> 770]] }

Dependencies == << [name |-> <<97>>, version |-> [major |-> 1, minor |-> 2, patch |-> 3]],
                   [name |-> <<99, 50>>, version |-> [major |-> 0, minor |-> 0, patch |-> 1]] >>

\* struct A, public, without functions; class n.B with
\* fn f(x: *a.A, y: **()): n.B and fn g(): !
Declarations ==
    << [is_class |-> FALSE,
       attrs |-> [public |-> "External", ext |-> None, repr |-> None],
       name |-> <<65>>, funcs |-> << >>],
      [is_class |-> TRUE, attrs |-> NoAttributes, name |-> <<110, 46, 66>>,
       funcs |-> << [name |-> <<102>>,
                     params |-> << [name |-> <<120>>,
                                    ty |-> StructType(1, SomePkg(<<97>>, 1), <<65>>)],
                                   [name |-> <<121>>, ty |-> UnitType(2)] >>,
                     ret |-> ClassType(0, NoPkg, <<110, 46, 66>>)],
                    [name |-> <<103>>, params |-> << >>, ret |-> NeverType] >>] >>

\* A bundled file whose bytes look like entry tags, and the system library "c".
LibraryBinaries == { [system |-> FALSE, data |-> <<127, 69, 0, 5, 1>>],
                     [system |-> TRUE, data |-> <<99>>] }

BuildDates == { <<0, 0, 25000, 1>>, <<0, 1, 0, 5>> }

\* The sequences of at most n elements of S.
RECURSIVE Orders(_, _)
Orders(S, n) ==
    IF n = 0 THEN {<< >>}
    ELSE Orders(S, n - 1) \cup
         {Append(q, x) : q \in {r \in Orders(S, n - 1) : Len(r) = n - 1}, x \in S}

\* The first elements of q, at most n of them, in the order of q and in the reverse of it.
Firsts(q, n) ==
    UNION {{SubSeq(q, 1, k), Reverse(SubSeq(q, 1, k))} : k \in 0..Min(n, Len(q))}

Libraries ==
    [ target : {LinuxId, Win32Id},
      bin    : LibraryBinaries,
      types  : Firsts(Declarations, MaxTypes),
      deps   : Firsts(Dependencies, MaxDeps) ]

NotUnpacked == [ok |-> FALSE, err |-> "NotUnpacked", val |-> << >>, p |-> 0]

\* Package::new: a package has an executable or a library, and one library per target.
PackInit ==
    /\ package \in [ meta : PackageMetas,
                     exes : {<< >>, <<LinuxId>>},
                     libs : {q \in Orders(Libraries, MaxLibs) :
                                \A i, j \in 1..Len(q) : q[i].target = q[j].target => i = j} ]
    /\ package.exes # << >> \/ package.libs # << >>
    /\ file = << >>
    /\ unpacked = NotUnpacked

\* Package::pack writes the package file.
DoPack ==
    \E date \in BuildDates :
        /\ file = << >>
        /\ file' = Pack(package, date)
        /\ UNCHANGED <<package, unpacked>>

\* Package::unpack reads it into an empty directory.
DoUnpack ==
    \E rev \in BOOLEAN :
        /\ file # << >>
        /\ unpacked = NotUnpacked
        /\ unpacked' = Unpack(file, rev)
        /\ UNCHANGED <<package, file>>

PackStep == DoPack \/ DoUnpack

\* Package files that Package::pack did not write: a header, then one
\* entry tag and some bytes after it.
Magic == <<127, 78, 80, 75>>

Header ==
    Magic \o <<1>> \o NameToBin(<<98, 49>>)
          \o <<2>> \o U64Bytes(VersionToBin([major |-> 1, minor |-> 0, patch |-> 0]))
          \o <<3>> \o U64Bytes(<<0, 0, 25000, 1>>)

Tags == {0, 1, 2, 3, 4, 5, 6, 7, 128, 255}

\* An entry of an executable as the container layout has it: the target,
\* no dependency, the length and the frame.
ExeEntry ==
    <<4>> \o LinuxId \o U16Bytes(0)
          \o U32Bytes(Len(ZstdWrite(<<127, 69, 76, 70>>))) \o ZstdWrite(<<127, 69, 76, 70>>)

\* An entry of the system library "c" without types, its frame followed
\* by k more bytes that the length counts in.
PaddedLibEntry(k) ==
    <<5>> \o LinuxId \o U16Bytes(0)
          \o U32Bytes(18 + k)
          \o ZstdWrite(LibrarySerialize([bin |-> [system |-> TRUE, data |-> <<99>>],
                                         types |-> << >>]))
          \o Zeros(k)

ForeignFiles ==
    { m \o <<0>> : m \in {<<127, 69, 76, 70>>, <<127, 78, 80>>, <<127, 78, 76, 77>>} }
    \cup { Header \o PaddedLibEntry(k) \o <<0>> : k \in {3, 7, 12} }
    \cup { h \o <<t>> \o Zeros(k) : h \in {Magic, Header}, t \in Tags, k \in {0, 8, 40} }
    \cup { Header \o ExeEntry \o <<0>> }
    \cup { Pack(pkg, <<0, 1, 0, 5>>) :
             pkg \in [ meta : PackageMetas, exes : {<< >>},
                       libs : {<<lib>> : lib \in {l \in Libraries : l.types = << >> /\ l.deps = << >>}} ] }

\* Package::unpack is given a file of its caller.
ForeignInit ==
    /\ package = [meta |-> CHOOSE m \in PackageMetas : TRUE, exes |-> <<LinuxId>>, libs |-> << >>]
    /\ file \in ForeignFiles
    /\ unpacked = NotUnpacked

\* ------------------------------------------------------------------------
\* Lowering: Function::build over one Codegen.
\* ------------------------------------------------------------------------

\* The most functions one module receives.
MaxFuncs == 2

VARIABLES
    target,      \* Codegen::target, the operating system of it
    executable,  \* Codegen::executable
    module,      \* the functions of the LLVM module, in the order added
    entry,       \* Codegen::entry, "" while none is recorded
    status,      \* "open", or how the compilation ended
    ty,          \* the type whose functions are being lowered
    built        \* the last call of Function::build and its result

buildVars == <<target, executable, module, entry, status, ty, built>>

TargetOs == {"Darwin", "Linux", "Win32"}

os_name_windows(os) ==
    CASE os = "Darwin" -> "darwin"
      [] os = "Linux" -> "linux"
      [] os = "Win32" -> "windows"

\* TargetOs::name
os_name(os) ==
    CASE os = "Darwin" -> "darwin"
      [] os = "Linux" -> "linux"
      [] os = "Win32" -> "win32"

is_unix_any(os) == os \in {"Darwin", "Linux", "Win32"}

\* TargetOs::is_unix
is_unix(os) == os \in {"Darwin", "Linux"}

\* Expressions of a condition.
Value(v) == [kind |-> "Value", value |-> v]

String(v) == [kind |-> "String", value |-> v]

Equal == [kind |-> "Equal", value |-> "=="]

NotEqual == [kind |-> "NotEqual", value |-> "!="]

NoCondition == [some |-> FALSE, exprs |-> << >>]

Condition(exprs) == [some |-> TRUE, exprs |-> exprs]

\* The results that are a panic and not a value: todo!() and
\* Option::unwrap() on None.
Panics == {"todo!()", "unwrap()"}

\* Attributes::run_condition.  "true" and "false" are Ok(true) and
\* Ok(false), a member of Panics is the panic, any other result is the
\* message of the SyntaxError.
run_condition(condition, os) ==
    IF ~condition.some THEN "true"
    ELSE IF condition.exprs = << >> THEN "unwrap()"
    ELSE IF condition.exprs[1].kind # "Value" THEN "expect an identifier"
    ELSE IF Len(condition.exprs) < 2
    THEN IF condition.exprs[1].value = "unix"
         THEN (IF is_unix(os) THEN "true" ELSE "false")
         ELSE (IF condition.exprs[1].value = os_name(os) THEN "true" ELSE "false")
    ELSE IF condition.exprs[2].kind \notin {"Equal", "NotEqual"}
    THEN "unsupported expression"
    ELSE IF condition.exprs[1].value # "os" THEN "unknown expression"
    ELSE IF Len(condition.exprs) < 3 THEN "expect a string literal after this"
    ELSE IF condition.exprs[3].kind # "String" THEN "expect a string literal"
    ELSE IF Len(condition.exprs) > 3 THEN "todo!()"
    ELSE IF condition.exprs[2].kind = "Equal"
    THEN (IF condition.exprs[3].value = os_name(os) THEN "true" ELSE "false")
    ELSE (IF condition.exprs[3].value # os_name(os) THEN "true" ELSE "false")

\* What Type::resolve finds for a name in the sources of the model:
\* nitro.Int32 and nitro.UInt8 are primitive structs of the library nitro
\* 1.x, self.App is a class of the project, no other name is defined.
TypeFound(n) ==
    CASE n = "Int32" ->
           [found |-> TRUE, pkg |-> SomePkg("nitro", 1), name |-> <<"Int32">>,
            class |-> FALSE, repr |-> "I32"]
      [] n = "UInt8" ->
           [found |-> TRUE, pkg |-> SomePkg("nitro", 1), name |-> <<"UInt8">>,
            class |-> FALSE, repr |-> "U8"]
      [] n = "App" ->
           [found |-> TRUE, pkg |-> NoPkg, name |-> <<"App">>,
            class |-> TRUE, repr |-> None]
      [] OTHER ->
           [found |-> FALSE, pkg |-> NoPkg, name |-> << >>,
            class |-> FALSE, repr |-> None]

\* A type as the source writes it: "()" is unit, "!" is never, "" stands
\* for an absent return type, any other name is an identifier.
SourceType(prefixes, name) == [prefixes |-> prefixes, name |-> name]

NoRet == SourceType(0, "")

NoType == [tag |-> "None", ptr |-> 0, pkg |-> NoPkg, name |-> << >>]

\* Type::to_external, NoType for None.
TypeToExternal(t) ==
    CASE t.name = "()" -> UnitType(t.prefixes)
      [] t.name = "!" -> NeverType
      [] OTHER ->
           IF ~TypeFound(t.name).found THEN NoType
           ELSE IF TypeFound(t.name).class
           THEN ClassType(t.prefixes, TypeFound(t.name).pkg, TypeFound(t.name).name)
           ELSE StructType(t.prefixes, TypeFound(t.name).pkg, TypeFound(t.name).name)

\* Type::build_primitive_struct
build_primitive_struct(repr) ==
    CASE repr = "I32" -> "I32"
      [] repr = "U8" -> "U8"
      [] OTHER -> "todo!()"

\* Type::build: the LLVM type, "Never" for Ok(None), "todo!()" for the
\* panic, "type is undefined" for the error.
TypeBuild(t) ==
    CASE t.name = "!" -> "Never"
      [] t.name = "()" -> IF t.prefixes > 0 THEN "Ptr" ELSE "Void"
      [] OTHER ->
           IF ~TypeFound(t.name).found THEN "type is undefined"
           ELSE IF TypeFound(t.name).class \/ TypeFound(t.name).repr = None
           THEN "todo!()"
           ELSE IF build_primitive_struct(TypeFound(t.name).repr) = "todo!()"
           THEN "todo!()"
           ELSE IF t.prefixes > 0 THEN "Ptr"
           ELSE build_primitive_struct(TypeFound(t.name).repr)

\* LlvmType::is_i32
is_i32(llvm) == llvm = "I32"

\* A function of the source.
Func(condition, ext, ent, name, params, ret, body) ==
    [attrs |-> [condition |-> condition, ext |-> ext, entry |-> ent],
     name |-> name, params |-> params, ret |-> ret, body |-> body]

\* crate::pkg::Function::new(name, params, ret) of Function::build
ExternalFunction(f) ==
    [name |-> f.name,
     ret |-> IF f.ret = NoRet THEN UnitType(0) ELSE TypeToExternal(f.ret),
     params |-> [i \in 1..Len(f.params) |-> TypeToExternal(f.params[i])]]

\* Whether a parameter or the return type has no external type.
UndefinedType(f) ==
    \/ \E i \in 1..Len(f.params) : TypeToExternal(f.params[i]) = NoType
    \/ f.ret # NoRet /\ TypeToExternal(f.ret) = NoType

\* The package being compiled.
ProjectPkg == SomePkg("p", 1)

\* The name Function::build gives the function.
FunctionName(f, exe, container) ==
    IF f.attrs.ext THEN f.name
    ELSE FunctionMangle(ExternalFunction(f),
                        IF exe THEN NoPkg ELSE ProjectPkg, <<container>>)

LlvmFuncGet_Null(mod, name) == FALSE

\* LlvmFunc::get(cx, name).is_some()
LlvmFuncGet(mod, name) == \E i \in 1..Len(mod) : mod[i].symbol = name

\* The return type of the LLVM function: "Never" becomes void.
RetBuild(f) ==
    IF f.ret = NoRet \/ TypeBuild(f.ret) = "Never" THEN "Void" ELSE TypeBuild(f.ret)

EntryCheck_AnyParams(f, ret, e) ==
    IF e # "" THEN "more than one entry point has been defined"
    ELSE IF ~is_i32(ret)
    THEN "the entry point must have nitro.Int32 as a return type"
    ELSE ""

\* The checks of an entry point, "" when they pass.
EntryCheck(f, ret, e) ==
    IF e # "" THEN "more than one entry point has been defined"
    ELSE IF ~is_i32(ret)
    THEN "the entry point must have nitro.Int32 as a return type"
    ELSE IF f.params # << >>
    THEN "the entry point must have zero parameters"
    ELSE ""

\* The parameters, built in order: "" when every one has an LLVM type.
RECURSIVE ParamsBuild(_)
ParamsBuild(params) ==
    IF params = << >> THEN ""
    ELSE CASE TypeBuild(Head(params)) = "Never" ->
                "function parameter cannot be a never type"
           [] TypeBuild(Head(params)) \in {"type is undefined", "todo!()"} ->
                TypeBuild(Head(params))
           [] OTHER -> ParamsBuild(Tail(params))

\* A result of Function::build: res is "ok" for Ok(Some), "skipped" for
\* Ok(None), "err" for a SyntaxError with the message msg, "panic";
\* added tells that LlvmFunc::new ran, recorded that set_entry ran.
Built(res, msg, symbol, added, recorded) ==
    [res |-> res, msg |-> msg, symbol |-> symbol,
     added |-> added, recorded |-> recorded]

Stopped(msg, symbol, added) ==
    Built(IF msg \in Panics THEN "panic" ELSE "err", msg, symbol, added, FALSE)

\* Function::build, from the check of the name on.
BuildNamed(f, name, mod, e) ==
    IF LlvmFuncGet(mod, name)
    THEN Stopped("multiple definition of the same name", name, FALSE)
    ELSE IF f.ret # NoRet /\ TypeBuild(f.ret) \in {"type is undefined", "todo!()"}
    THEN Stopped(TypeBuild(f.ret), name, FALSE)
    ELSE IF f.attrs.entry /\ EntryCheck(f, RetBuild(f), e) # ""
    THEN Stopped(EntryCheck(f, RetBuild(f), e), name, FALSE)
    ELSE IF ParamsBuild(f.params) # ""
    THEN Stopped(ParamsBuild(f.params), name, FALSE)
    ELSE IF ~f.body /\ ~f.attrs.ext
    THEN Stopped("a body is required for non-extern or non-abstract", name, TRUE)
    ELSE Built("ok", "", name, TRUE, f.attrs.entry)

\* Function::build
FunctionBuild(f, container, mod, e, exe, os) ==
    IF run_condition(f.attrs.condition, os) = "false"
    THEN Built("skipped", "", "", FALSE, FALSE)
    ELSE IF run_condition(f.attrs.condition, os) # "true"
    THEN Stopped(run_condition(f.attrs.condition, os), "", FALSE)
    ELSE IF UndefinedType(f) THEN Stopped("undefined type", "", FALSE)
    ELSE BuildNamed(f, FunctionName(f, exe, container), mod, e)

Int32 == SourceType(0, "Int32")

\* The conditions of the sources: what Expression::parse returns for the
\* tokens between @if( and the closing parenthesis.  It returns the empty
\* list for @if(); an identifier is followed by == or != or ends the list.
Conditions ==
    { NoCondition,
      Condition(<< >>),
      Condition(<<Value("windows")>>),
      Condition(<<Value("unix")>>),
      Condition(<<Value("darwin")>>),
      Condition(<<Value("linux")>>),
      Condition(<<Value("win32")>>),
      Condition(<<Value("os"), Equal, String("win32")>>),
      Condition(<<Value("os"), Equal, String("windows")>>),
      Condition(<<Value("os"), NotEqual, String("linux")>>),
      Condition(<<Value("os"), NotEqual, String("windows")>>),
      Condition(<<Value("cpu"), Equal, String("x")>>),
      Condition(<<String("x")>>),
      Condition(<<Value("os"), Equal>>),
      Condition(<<String("x"), Value("os")>>),
      Condition(<<Value("os"), Equal, Value("x")>>),
      Condition(<<Value("os"), Equal, String("linux"), Value("x")>>) }

\* The functions of the sources: Main in a type and the @ext(C) functions
\* Main and foo, with and without @entry, over the signatures that lower;
\* the signatures that do not; one function under each condition.
Functions ==
    { Func(NoCondition, FALSE, e, "Main", sig[1], sig[2], TRUE) :
        e \in BOOLEAN,
        sig \in {<< << >>, Int32 >>, << <<Int32>>, Int32 >>, << << >>, NoRet >>} }
    \cup { Func(NoCondition, TRUE, e, n, << >>, r, FALSE) :
             e \in BOOLEAN, n \in {"Main", "foo"}, r \in {Int32, NoRet} }
    \cup { Func(NoCondition, TRUE, TRUE, "Main", <<Int32>>, Int32, FALSE) }
    \cup { Func(NoCondition, FALSE, TRUE, "Main", << >>, r, TRUE) :
             r \in {SourceType(0, "UInt8"), SourceType(1, "Int32"),
                    SourceType(0, "!"), SourceType(0, "()"),
                    SourceType(0, "Foo"), SourceType(0, "App")} }
    \cup { Func(NoCondition, FALSE, FALSE, "foo", <<t>>, NoRet, TRUE) :
             t \in {SourceType(0, "!"), SourceType(1, "!"), SourceType(0, "()"),
                    SourceType(0, "Foo"), SourceType(0, "App")} }
    \cup { Func(NoCondition, FALSE, e, "Main", << >>, Int32, FALSE) : e \in BOOLEAN }
    \cup { Func(c, FALSE, FALSE, "foo", << >>, NoRet, TRUE) : c \in Conditions }

\* The types of the sources, each with the condition on it.
SourceTypes ==
    { [name |-> "A", condition |-> NoCondition],
      [name |-> "B", condition |-> NoCondition],
      [name |-> "A", condition |-> Condition(<<Value("os"), Equal, String("windows")>>)],
      [name |-> "A", condition |-> Condition(<<Value("os"), Equal, String("win32")>>)],
      [name |-> "A", condition |-> Condition(<<Value("unix")>>)],
      [name |-> "A", condition |-> Condition(<<String("x")>>)] }

NoSourceType == [name |-> "", condition |-> NoCondition, res |-> "none"]

NotBuilt ==
    [f |-> Func(NoCondition, FALSE, FALSE, "", << >>, NoRet, FALSE),
     before |-> "", res |-> "none", msg |-> "", symbol |-> "", added |-> FALSE]

\* Codegen::new
BuildInit ==
    /\ target \in TargetOs
    /\ executable \in BOOLEAN
    /\ module = << >>
    /\ entry = ""
    /\ status = "open"
    /\ ty = NoSourceType
    /\ built = NotBuilt

\* How a result ends the compilation.
StatusOf(res) ==
    CASE res = "err" -> "failed"
      [] res = "panic" -> "panicked"
      [] OTHER -> "open"

\* The condition of a type: its functions are lowered only if it holds.
BuildType ==
    \E t \in SourceTypes :
        /\ status = "open"
        /\ ty' = [name |-> t.name, condition |-> t.condition,
                  res |-> CASE run_condition(t.condition, target) = "true" -> "entered"
                            [] run_condition(t.condition, target) = "false" -> "skipped"
                            [] run_condition(t.condition, target) \in Panics -> "panic"
                            [] OTHER -> "err"]
        /\ status' = StatusOf(ty'.res)
        /\ built' = [NotBuilt EXCEPT !.before = entry]
        /\ UNCHANGED <<target, executable, module, entry>>

\* The state after a call of Function::build that returned r.
Lowered(f, r) ==
    /\ built' = [f |-> f, before |-> entry, res |-> r.res, msg |-> r.msg,
                 symbol |-> r.symbol, added |-> r.added]
    /\ module' = IF r.added
                 THEN Append(module, [symbol |-> r.symbol, container |-> ty.name])
                 ELSE module
    /\ entry' = IF r.recorded THEN r.symbol ELSE entry
    /\ status' = StatusOf(r.res)

\* One call of Function::build on a function of the current type.
BuildFunction ==
    \E f \in Functions :
        /\ status = "open"
        /\ ty.res = "entered"
        /\ Len(module) < MaxFuncs
        /\ Lowered(f, FunctionBuild(f, ty.name, module, entry, executable, target))
        /\ UNCHANGED <<target, executable, ty>>

\* Codegen::build: the module is closed and the object file is emitted,
\* unless the backend fails.
CodegenBuild ==
    \E emitted \in BOOLEAN :
        /\ status = "open"
        /\ module' =
             IF target = "Win32" /\ ~executable
             THEN Append(module, [symbol |-> "_DllMainCRTStartup", container |-> ""])
             ELSE module
        /\ status' = IF emitted THEN "emitted" ELSE "emit failed"
        /\ UNCHANGED <<target, executable, entry, ty, built>>

BuildStep == BuildType \/ BuildFunction \/ CodegenBuild

\* ------------------------------------------------------------------------
\* PackageName and PackageVersion on their own.
\* ------------------------------------------------------------------------

VARIABLES
    cand,     \* the string given to PackageName::from_str
    parsed,   \* what from_str returned
    nbin,     \* the 32 bytes of a name
    decoded,  \* what PackageName::from_bin returned
    pver,     \* a PackageVersion
    vbin,     \* the u64 of it, as four 16-bit digits
    vback     \* what PackageVersion::from_bin returned

metaVars == <<cand, parsed, nbin, decoded, pver, vbin, vback>>

\* The bytes around the ends of a..z and 0..9, and an upper-case letter.
NameBytes == {47, 48, 57, 58, 65, 96, 97, 122, 123}

\* Strings of at most two bytes, one with a two-byte character, and strings
\* around 32 bytes.
NameCandidates ==
    {<< >>} \cup {<<x>> : x \in NameBytes} \cup {<<x, y>> : x, y \in NameBytes}
    \cup {<<97, 195, 169>>}
    \cup { [i \in 1..n |-> IF i = n THEN x ELSE 97] : n \in 31..33, x \in {57, 97, 65} }

\* Name entries of package files that no to_bin wrote: bytes after the
\* first zero, no zero at all, and bytes that are not UTF-8.
RawNames ==
    { <<97, 0, 65>> \o Zeros(29), <<0, 97>> \o Zeros(30), <<65>> \o Zeros(31),
      <<97, 255>> \o Zeros(30),
      [i \in 1..32 |-> 48], [i \in 1..32 |-> IF i = 32 THEN 123 ELSE 97] }

VersionFields == {0, 1, 255, 256, 65535}

NotDone == [done |-> FALSE, ok |-> FALSE, val |-> << >>]

Finished(r) == [done |-> TRUE, ok |-> r.ok, val |-> r.val]

NoVersion == [major |-> 0, minor |-> 0, patch |-> 0]

MetaParked ==
    /\ cand = << >>
    /\ parsed = NotDone
    /\ nbin = << >>
    /\ decoded = NotDone
    /\ pver = NoVersion
    /\ vbin = << >>
    /\ vback = NoVersion

\* A string to parse, a name entry to decode, or a version.
MetaInit ==
    /\ parsed = NotDone
    /\ decoded = NotDone
    /\ vbin = << >>
    /\ vback = NoVersion
    /\ \/ cand \in NameCandidates /\ nbin = << >> /\ pver = NoVersion
       \/ cand = << >> /\ nbin \in RawNames /\ pver = NoVersion
       \/ cand = << >> /\ nbin = << >>
            /\ pver \in [major : VersionFields, minor : VersionFields, patch : VersionFields]

\* PackageName::from_str
FromStr ==
    /\ ~parsed.done
    /\ nbin = << >>
    /\ pver = NoVersion
    /\ parsed' = Finished(NameFromStr(cand))
    /\ UNCHANGED <<cand, nbin, decoded, pver, vbin, vback>>

\* PackageName::to_bin
ToBin ==
    /\ parsed.ok
    /\ nbin = << >>
    /\ nbin' = NameToBin(parsed.val)
    /\ UNCHANGED <<cand, parsed, decoded, pver, vbin, vback>>

\* PackageName::from_bin
FromBin ==
    /\ nbin # << >>
    /\ ~decoded.done
    /\ decoded' = Finished(NameFromBin(nbin))
    /\ UNCHANGED <<cand, parsed, nbin, pver, vbin, vback>>

\* PackageVersion::to_bin
VersionTo ==
    /\ pver # NoVersion
    /\ vbin = << >>
    /\ vbin' = VersionToBin(pver)
    /\ UNCHANGED <<cand, parsed, nbin, decoded, pver, vback>>

\* PackageVersion::from_bin
VersionFrom ==
    /\ vbin # << >>
    /\ vback = NoVersion
    /\ vback' = VersionFromBin(vbin)
    /\ UNCHANGED <<cand, parsed, nbin, decoded, pver, vbin>>

MetaStep == FromStr \/ ToBin \/ FromBin \/ VersionTo \/ VersionFrom

\* ------------------------------------------------------------------------
\* Project::build.
\* ------------------------------------------------------------------------

VARIABLES
    proj,      \* the project after open and load: package name, Project::exe, Project::lib
    libsOut,   \* libs of Project::build: target -> the types the library exports
    exesOut,   \* exes of Project::build: the targets an executable was linked for
    buildLog,  \* the calls of build_for so far: exe, target and the resolver given
    ended      \* "running", or how Project::build ended

projVars == <<proj, libsOut, exesOut, buildLog, ended>>

\* PrimitiveTarget::ALL, by position.
PrimitiveTargets == 1..4

\* TypeResolver::populate_internal_types on a new resolver.
InternalTypes(set) == [k \in {"self." \o n : n \in set} |-> "Internal"]

\* The keys TypeResolver::populate_external_types inserts.
ExternalKeys(pkg, tys) == {pkg \o "." \o n : n \in tys}

\* TypeResolver::populate_external_types: the resolver, not ok when the
\* assertion fails on a key that is already there.
ExternalTypes(res, pkg, tys) ==
    [ok |-> ExternalKeys(pkg, tys) \cap DOMAIN res = {},
     types |-> [k \in DOMAIN res \cup ExternalKeys(pkg, tys) |->
                  IF k \in DOMAIN res THEN res[k] ELSE "External"]]

\* A lookup that takes the library of the first target.
ExeLibrary_First(libs, t) == IF 1 \in DOMAIN libs THEN libs[1] ELSE {}

\* The loop of Project::build that finds the library of a target: a
\* primitive target has no parent.
ExeLibrary(libs, t) == IF t \in DOMAIN libs THEN libs[t] ELSE {}

\* The resolver of the executable build for target t.
ExeResolver(p, libs, t) ==
    IF DOMAIN libs # {}
    THEN ExternalTypes(InternalTypes(p.exe), p.name, ExeLibrary(libs, t))
    ELSE [ok |-> TRUE, types |-> InternalTypes(p.exe)]

\* The fully qualified names of the types of the source files.
TypeFqtns == {"X", "n.X"}

\* Project::open and Project::load succeeded.  A source directory without
\* a file that defines a type loads as the empty map.
ProjectInit ==
    /\ proj \in [name : {"p", "self"}, exe : SUBSET TypeFqtns, lib : SUBSET TypeFqtns]
    /\ libsOut = << >>
    /\ exesOut = {}
    /\ buildLog = << >>
    /\ ended = "running"

ProjParked ==
    /\ proj = [name |-> "p", exe |-> {}, lib |-> {}]
    /\ libsOut = << >>
    /\ exesOut = {}
    /\ buildLog = << >>
    /\ ended = "running"

LibsBuilt == proj.lib = {} \/ DOMAIN libsOut = PrimitiveTargets

ExesBuilt == proj.exe = {} \/ exesOut = PrimitiveTargets

\* One round of the library loop: the next target in order; build_for or
\* link_lib may fail; exports are the types src.build returned.
BuildLibrary ==
    \E exports \in SUBSET proj.lib, failed \in BOOLEAN :
        LET t == Cardinality(DOMAIN libsOut) + 1 IN
        /\ ended = "running"
        /\ ~LibsBuilt
        /\ buildLog' = Append(buildLog, [exe |-> FALSE, target |-> t,
                                         resolver |-> InternalTypes(proj.lib)])
        /\ libsOut' = IF failed THEN libsOut ELSE libsOut @@ (t :> exports)
        /\ ended' = IF failed THEN "err" ELSE "running"
        /\ UNCHANGED <<proj, exesOut>>

\* The state after one round of the executable loop with the resolver r.
ExeBuilt(t, r, failed) ==
    /\ buildLog' = IF ~r.ok THEN buildLog
                   ELSE Append(buildLog, [exe |-> TRUE, target |-> t, resolver |-> r.types])
    /\ exesOut' = IF ~r.ok \/ failed THEN exesOut ELSE exesOut \cup {t}
    /\ ended' = IF ~r.ok THEN "panic in populate_external_types"
                ELSE IF failed THEN "err" ELSE "running"

\* One round of the executable loop.
BuildExecutable ==
    \E failed \in BOOLEAN :
        /\ ended = "running"
        /\ LibsBuilt
        /\ ~ExesBuilt
        /\ ExeBuilt(Cardinality(exesOut) + 1,
                    ExeResolver(proj, libsOut, Cardinality(exesOut) + 1), failed)
        /\ UNCHANGED <<proj, libsOut>>

\* Package::new at the end of Project::build.
PackageNew ==
    /\ ended = "running"
    /\ LibsBuilt
    /\ ExesBuilt
    /\ ended' = IF exesOut # {} \/ DOMAIN libsOut # {} THEN "ok"
                ELSE "panic in Package::new"
    /\ UNCHANGED <<proj, libsOut, exesOut, buildLog>>

ProjectStep == BuildLibrary \/ BuildExecutable \/ PackageNew

\* ------------------------------------------------------------------------
\* BasicBlock: the blocks of the function bodies.
\* ------------------------------------------------------------------------

MaxBlocks == 3

VARIABLES
    blocks,   \* the LLVM basic blocks created: the function that owns it ("" for
              \* none), whether the BasicBlock value is alive, the times deleted
    scope     \* where build_body or build_dll_main stands, and the function built

blockVars == <<blocks, scope>>

\* BasicBlock::new
BasicBlockNew == [owner |-> "", alive |-> TRUE, deleted |-> 0]

\* An append that leaves the value to its destructor.
LlvmFuncAppend_NoForget(b, f) == [b EXCEPT !.owner = f]

\* LlvmFunc::append: LLVMAppendExistingBasicBlock, then forget(block).
LlvmFuncAppend(b, f) == [b EXCEPT !.owner = f, !.alive = FALSE]

\* The end of the scope of a BasicBlock value: Drop runs if it is alive.
BasicBlockDrop(b) ==
    IF b.alive THEN [b EXCEPT !.alive = FALSE, !.deleted = @ + 1] ELSE b

\* The functions that get a body: those of the sources, and the DllMain.
BlockSites == {"foo", "Main", "_DllMainCRTStartup"}

Idle == [at |-> "idle", func |-> ""]

BlockInit ==
    /\ blocks = << >>
    /\ scope = Idle

\* let mut bb = BasicBlock::new(cx)
BlockNew ==
    \E f \in BlockSites :
        /\ scope = Idle
        /\ Len(blocks) < MaxBlocks
        /\ blocks' = Append(blocks, BasicBlockNew)
        /\ scope' = [at |-> "created", func |-> f]

\* Builder::new(cx, &mut bb) and the return instruction
BuilderRet ==
    /\ scope.at = "created"
    /\ scope' = [scope EXCEPT !.at = "built"]
    /\ UNCHANGED blocks

\* func.append(bb)
FuncAppend ==
    /\ scope.at = "built"
    /\ blocks' = [blocks EXCEPT ![Len(blocks)] = LlvmFuncAppend(@, scope.func)]
    /\ scope' = [scope EXCEPT !.at = "appended"]

\* The function returns: the values of its scope are dropped.
ScopeExit ==
    /\ scope.at = "appended"
    /\ blocks' = [blocks EXCEPT ![Len(blocks)] = BasicBlockDrop(@)]
    /\ scope' = Idle

BlockStep == BlockNew \/ BuilderRet \/ FuncAppend \/ ScopeExit

\* ------------------------------------------------------------------------
\* SourceFile::parse_top, over the tokens of the source file.  A token is
\* the text of it: the keywords `struct`, `class` and `impl`, the
\* identifiers `A` and `B`, the attribute name `@F` and punctuation.  The
\* sources hold no `fn` and no attribute argument, so parse_fn and
\* parse_exprs are never entered.
\* ------------------------------------------------------------------------

VARIABLES
    sourceFile,  \* the SourceFile: the stem of its path, ty and the number of impls
    lex,         \* the Lexer: the tokens, next and last as token numbers (last 0 = None)
    parser       \* where the parser is, who called parse_attrs, and how it ended

parseVars == <<sourceFile, lex, parser>>

\* The most sources put together for one file.
MaxItems == 3

\* The most attributes counted in Vec<Attribute>; more count as this many.
MaxAttrs == 3

ParseItems ==
    { <<"struct", "A", ";">>, <<"struct", "B", ";">>, <<"class", "A", "{", "}">>,
      <<"impl", "A", "{", "}">>, <<"impl", "B", "{", "}">>,
      <<"impl", "A", "{", "@F", "}">>, <<"@F">>, <<"@F", "(", ")">>,
      <<"impl", "A">>, <<";">>, <<"struct">>, <<"class", "A", "{">> }

RECURSIVE ParseSources(_)
ParseSources(n) ==
    IF n = 0 THEN { << >> }
    ELSE ParseSources(n - 1) \cup { s \o i : s \in ParseSources(n - 1), i \in ParseItems }

IsAttributeName(t) == t = "@F"

IsTokenIdentifier(t) == t \in {"A", "B"}

\* Lexer::next: None at the end of the tokens, and then `last` stays.
TokNext(l) ==
    IF l.next > Len(l.src) THEN [tok |-> None, lex |-> l]
    ELSE [tok |-> l.src[l.next], lex |-> [l EXCEPT !.last = l.next, !.next = l.next + 1]]

\* Lexer::undo, for a `last` that is Some.
TokUndo(l) == [l EXCEPT !.next = l.last, !.last = 0]

\* Lexer::next_ident.
next_ident(l) ==
    LET r == TokNext(l) IN
    IF r.tok = None THEN [msg |-> "expect an identifier after this", name |-> None, lex |-> r.lex]
    ELSE IF IsTokenIdentifier(r.tok) THEN [msg |-> "", name |-> r.tok, lex |-> r.lex]
    ELSE [msg |-> "expect an identifier", name |-> None, lex |-> r.lex]

can_define_type_StemOnly(sf, name) ==
    IF name # sf.stem THEN "type name and file name must be matched" ELSE ""

\* SourceFile::can_define_type: the message of the error, "" for Ok.
can_define_type(sf, name) ==
    IF sf.ty # None THEN "multiple type definition in a source file"
    ELSE IF name # sf.stem THEN "type name and file name must be matched"
    ELSE ""

\* SourceFile::parse_struct and parse_class, which differ in the messages.
parse_struct(l, kw) ==
    LET r == TokNext(l) IN
    IF r.tok = None THEN
        [msg |-> IF kw = "struct" THEN "expect either ';' or '{' after struct name"
                 ELSE "expect either ';' or '{' after the class name", lex |-> r.lex]
    ELSE IF r.tok = ";" THEN [msg |-> "", lex |-> r.lex]
    ELSE IF r.tok # "{" THEN [msg |-> "expect either ';' or '{'", lex |-> r.lex]
    ELSE LET f == TokNext(r.lex) IN
         IF f.tok = None THEN [msg |-> "expect an '}'", lex |-> f.lex]
         ELSE IF f.tok = "}" THEN [msg |-> "", lex |-> f.lex]
         ELSE [msg |-> IF kw = "struct" THEN "expect an '}'" ELSE "syntax error", lex |-> f.lex]

\* The arm of parse_top for `struct` and `class`.
DefineType(sf, l, kw) ==
    LET n == next_ident(l) IN
    IF n.msg # "" THEN [msg |-> n.msg, sf |-> sf, lex |-> n.lex]
    ELSE IF can_define_type(sf, n.name) # "" THEN
        [msg |-> can_define_type(sf, n.name), sf |-> sf, lex |-> n.lex]
    ELSE LET b == parse_struct(n.lex, kw) IN
         IF b.msg # "" THEN [msg |-> b.msg, sf |-> sf, lex |-> b.lex]
         ELSE [msg |-> "", sf |-> [sf EXCEPT !.ty = n.name], lex |-> b.lex]

\* The arm of parse_top for `impl`, up to the call of parse_type_impl.
ImplHead(sf, l) ==
    LET n == next_ident(l) IN
    IF n.msg # "" THEN [msg |-> n.msg, lex |-> n.lex]
    ELSE LET r == TokNext(n.lex) IN
         IF r.tok = None THEN [msg |-> "expect '{' after this", lex |-> r.lex]
         ELSE IF r.tok # "{" THEN [msg |-> "expect '{'", lex |-> r.lex]
         ELSE IF sf.ty = None THEN
             [msg |-> "type must be defined before define an implementation", lex |-> r.lex]
         ELSE IF sf.ty # n.name THEN
             [msg |-> "an implementation is not matched with type in the file", lex |-> r.lex]
         ELSE [msg |-> "", lex |-> r.lex]

ParseInit ==
    /\ sourceFile \in [stem : {"A", "B"}, ty : {None}, impls : {0}]
    /\ lex \in [src : ParseSources(MaxItems), next : {1}, last : {0}]
    /\ parser = [at |-> "parse_top", ret |-> "", attrs |-> 0, outcome |-> "running"]

ParseParked ==
    /\ sourceFile = [stem |-> "", ty |-> None, impls |-> 0]
    /\ lex = [src |-> << >>, next |-> 1, last |-> 0]
    /\ parser = [at |-> "", ret |-> "", attrs |-> 0, outcome |-> "none"]

Parsing(f) == parser.outcome = "running" /\ parser.at = f

Stop(l, how) ==
    /\ lex' = l
    /\ parser' = [parser EXCEPT !.outcome = how]
    /\ UNCHANGED sourceFile

\* One turn of the loop of parse_top.
ParseTop ==
    /\ Parsing("parse_top")
    /\ LET r == TokNext(lex) IN
       IF r.tok = None THEN Stop(r.lex, "ok")
       ELSE IF IsAttributeName(r.tok) THEN
           /\ lex' = r.lex
           /\ parser' = [parser EXCEPT !.at = "parse_attr", !.ret = "parse_top", !.attrs = 0]
           /\ UNCHANGED sourceFile
       ELSE IF r.tok \in {"struct", "class"} THEN
           LET d == DefineType(sourceFile, r.lex, r.tok) IN
           IF d.msg # "" THEN Stop(d.lex, d.msg)
           ELSE /\ lex' = d.lex
                /\ sourceFile' = d.sf
                /\ UNCHANGED parser
       ELSE IF r.tok = "impl" THEN
           LET h == ImplHead(sourceFile, r.lex) IN
           IF h.msg # "" THEN Stop(h.lex, h.msg)
           ELSE /\ lex' = h.lex
                /\ parser' = [parser EXCEPT !.at = "parse_type_impl"]
                /\ UNCHANGED sourceFile
       ELSE Stop(r.lex, "this item is not allowed as a top-level")

\* One turn of the loop of parse_type_impl.
ParseTypeImpl ==
    /\ Parsing("parse_type_impl")
    /\ LET r == TokNext(lex) IN
       IF r.tok = None THEN Stop(r.lex, "expect an '}'")
       ELSE IF IsAttributeName(r.tok) THEN
           /\ lex' = r.lex
           /\ parser' = [parser EXCEPT !.at = "parse_attr", !.ret = "parse_type_impl", !.attrs = 0]
           /\ UNCHANGED sourceFile
       ELSE IF r.tok = "}" THEN
           /\ lex' = r.lex
           /\ sourceFile' = [sourceFile EXCEPT !.impls = @ + 1]
           /\ parser' = [parser EXCEPT !.at = "parse_top"]
       ELSE Stop(r.lex, "syntax error")

\* parse_attr, called by parse_attrs with an attribute name just read, and
\* the push of its result.
ParseAttr ==
    /\ Parsing("parse_attr")
    /\ LET r == TokNext(lex) IN
       IF r.tok = "(" THEN
           LET a == TokNext(r.lex) IN
           /\ a.tok \in {None, ")"}
           /\ IF a.tok = None THEN Stop(a.lex, "expect ')' after this")
              ELSE /\ lex' = a.lex
                   /\ parser' = [parser EXCEPT !.at = "parse_attrs",
                                               !.attrs = Min(@ + 1, MaxAttrs)]
                   /\ UNCHANGED sourceFile
       ELSE IF r.tok = ")" THEN Stop(r.lex, "expect '('")
       ELSE IF r.lex.last = 0 THEN Stop(r.lex, "panic")
       ELSE /\ lex' = TokUndo(r.lex)
            /\ parser' = [parser EXCEPT !.at = "parse_attrs", !.attrs = Min(@ + 1, MaxAttrs)]
            /\ UNCHANGED sourceFile

\* One turn of the loop of parse_attrs.
ParseAttrs ==
    /\ Parsing("parse_attrs")
    /\ LET r == TokNext(lex) IN
       IF r.tok = None THEN
           Stop(r.lex, IF r.lex.last = 0 THEN "panic" ELSE "expected an item after this")
       ELSE IF IsAttributeName(r.tok) THEN
           /\ lex' = r.lex
           /\ parser' = [parser EXCEPT !.at = "parse_attr"]
           /\ UNCHANGED sourceFile
       ELSE /\ lex' = TokUndo(r.lex)
            /\ parser' = [parser EXCEPT !.at = parser.ret]
            /\ UNCHANGED sourceFile

ParseStep == ParseTop \/ ParseTypeImpl \/ ParseAttr \/ ParseAttrs

\* ------------------------------------------------------------------------
\* DependencyResolver.  A Dependency is a package name and a version; the
\* keys of `loaded` are ordered as derive(Ord) orders them, by name and then
\* by major, minor and patch.
\* ------------------------------------------------------------------------

VARIABLES
    cache,   \* the directories under DependencyResolver::cache: the package each holds
    std,     \* the package file at DependencyResolver::std
    loaded,  \* DependencyResolver::loaded
    answer   \* the last call of resolve and what it returned

depVars == <<cache, std, loaded, answer>>

\* The package names, in the order of String.
DepNames == <<"abc", "nitro">>

\* The highest major version of a dependency.
MaxMajor == 2

DepVersions == { <<major, 0, 0>> : major \in 1..MaxMajor }

DepIds == [name : Range(DepNames), version : DepVersions]

Absent == [name |-> "", version |-> <<0, 0, 0>>]

NameRank(n) == CHOOSE i \in 1..Len(DepNames) : DepNames[i] = n

VersionLess(a, b) ==
    \/ a[1] < b[1]
    \/ a[1] = b[1] /\ a[2] < b[2]
    \/ a[1] = b[1] /\ a[2] = b[2] /\ a[3] < b[3]

\* Ord for Dependency.
DepLess(a, b) ==
    \/ NameRank(a.name) < NameRank(b.name)
    \/ a.name = b.name /\ VersionLess(a.version, b.version)

\* loaded.range(id..).next(): the keys from id on, and the least of them.
RangeFrom(map, id) == { k \in DOMAIN map : k = id \/ DepLess(id, k) }

RangeFirst(map, id) == CHOOSE k \in RangeFrom(map, id) : \A o \in RangeFrom(map, id) : o = k \/ DepLess(k, o)

\* The entry resolve looks at: none when no key is at or after id.
LoadedFirst(map, id) == IF RangeFrom(map, id) = {} THEN {} ELSE {RangeFirst(map, id)}

\* Package::open on a directory of the cache: the package of that
\* directory, with the PackageMeta that was stored in it.
PackageOpen(dirs, id) == dirs[id]

\* The packages a directory named after id can hold: one that declares the
\* name and version of id, or one of that name that declares another major.
Declaring(id) ==
    { [name |-> id.name, version |-> v] :
        v \in { id.version, <<(id.version[1] % MaxMajor) + 1, 0, 0>> } }

DepInit ==
    /\ cache \in { c \in [DepIds -> [name : Range(DepNames), version : DepVersions] \cup {Absent}] :
                     \A id \in DepIds : c[id] \in Declaring(id) \cup {Absent} }
    /\ std \in {Absent} \cup [name : {"nitro"}, version : { <<major, 0, 0>> : major \in 1..MaxMajor }]
    /\ loaded = << >>
    /\ answer = [id |-> Absent, res |-> "new", pkg |-> Absent, known |-> FALSE, from |-> ""]

DepParked ==
    /\ cache = << >>
    /\ std = Absent
    /\ loaded = << >>
    /\ answer = [id |-> Absent, res |-> "none", pkg |-> Absent, known |-> FALSE, from |-> ""]

Answer(id, res, pkg, from) ==
    answer' = [id |-> id, res |-> res, pkg |-> pkg, known |-> id \in DOMAIN loaded, from |-> from]

\* Package::open succeeded: the assertion on insert, and the insert.
Insert(id, pkg) ==
    IF id \in DOMAIN loaded
    THEN /\ Answer(id, "panic in insert", Absent, "")
         /\ UNCHANGED loaded
    ELSE /\ Answer(id, "ok", pkg, "cache")
         /\ loaded' = [k \in DOMAIN loaded \cup {id} |-> IF k = id THEN pkg ELSE loaded[k]]

\* DependencyResolver::resolve.
DepResolve ==
    /\ answer.res \notin {"panic in insert", "panic in todo"}
    /\ \E id \in DepIds :
        LET first == LoadedFirst(loaded, id) IN
        IF first # {} /\ \A k \in first : loaded[k].version[1] = id.version[1]
        THEN /\ Answer(id, "ok", loaded[CHOOSE k \in first : TRUE], "loaded")
             /\ UNCHANGED <<cache, std, loaded>>
        ELSE IF cache[id] # Absent
        THEN /\ Insert(id, PackageOpen(cache, id))
             /\ UNCHANGED <<cache, std>>
        ELSE IF id.name # "nitro"
        THEN /\ Answer(id, "panic in todo", Absent, "")
             /\ UNCHANGED <<cache, std, loaded>>
        ELSE IF std = Absent
        THEN /\ Answer(id, "OpenStdFailed", Absent, "")
             /\ UNCHANGED <<cache, std, loaded>>
        ELSE /\ cache' = [cache EXCEPT ![id] = std]
             /\ Insert(id, PackageOpen(cache', id))
             /\ UNCHANGED std

DepStep == DepResolve

\* ------------------------------------------------------------------------
\* The specifications.  Each one runs one part of the compiler; the state
\* of the other parts stays as it is before they are constructed.
\* ------------------------------------------------------------------------

vars == <<lexVars, resVars, mangleVars, packVars, buildVars, metaVars, projVars, blockVars, parseVars, depVars>>

LexParked ==
    /\ data = << >>
    /\ next = 0
    /\ last = NoSpan
    /\ lexRes = [res |-> "new"]
    /\ toks = << >>
    /\ undone = NoToken
    /\ replay = NoToken

ResParked == ResInit

PackParked ==
    /\ package = [meta |-> [name |-> <<97>>, version |-> [major |-> 0, minor |-> 0, patch |-> 0]],
                  exes |-> <<LinuxId>>, libs |-> << >>]
    /\ file = << >>
    /\ unpacked = NotUnpacked

BuildParked ==
    /\ target = "Linux"
    /\ executable = FALSE
    /\ module = << >>
    /\ entry = ""
    /\ status = "open"
    /\ ty = NoSourceType
    /\ built = NotBuilt

Parked(part) ==
    /\ IF part = "lexer" THEN TRUE ELSE LexParked
    /\ IF part = "resolver" THEN TRUE ELSE ResParked
    /\ IF part = "mangle" THEN TRUE ELSE MangleInit
    /\ IF part = "pack" THEN TRUE ELSE PackParked
    /\ IF part = "build" THEN TRUE ELSE BuildParked
    /\ IF part = "meta" THEN TRUE ELSE MetaParked
    /\ IF part = "project" THEN TRUE ELSE ProjParked
    /\ IF part = "block" THEN TRUE ELSE BlockInit
    /\ IF part = "parse" THEN TRUE ELSE ParseParked
    /\ IF part = "deps" THEN TRUE ELSE DepParked

Frame(part) ==
    /\ IF part = "lexer" THEN TRUE ELSE UNCHANGED lexVars
    /\ IF part = "resolver" THEN TRUE ELSE UNCHANGED resVars
    /\ IF part = "mangle" THEN TRUE ELSE UNCHANGED mangleVars
    /\ IF part = "pack" THEN TRUE ELSE UNCHANGED packVars
    /\ IF part = "build" THEN TRUE ELSE UNCHANGED buildVars
    /\ IF part = "meta" THEN TRUE ELSE UNCHANGED metaVars
    /\ IF part = "project" THEN TRUE ELSE UNCHANGED projVars
    /\ IF part = "block" THEN TRUE ELSE UNCHANGED blockVars
    /\ IF part = "parse" THEN TRUE ELSE UNCHANGED parseVars
    /\ IF part = "deps" THEN TRUE ELSE UNCHANGED depVars

LexerInit == LexInit /\ Parked("lexer")

LexerNext == LexStep /\ Frame("lexer")

SpecLexer == LexerInit /\ [][LexerNext]_vars

ResolveInit == ResInit /\ Parked("resolver")

ResolveNext == ResStep /\ Frame("resolver")

SpecResolve == ResolveInit /\ [][ResolveNext]_vars

MangleSpecInit == MangleInit /\ Parked("mangle")

MangleNext == MangleStep /\ Frame("mangle")

SpecMangle == MangleSpecInit /\ [][MangleNext]_vars

PackSpecInit == PackInit /\ Parked("pack")

PackNext == PackStep /\ Frame("pack")

SpecPack == PackSpecInit /\ [][PackNext]_vars

UnpackSpecInit == ForeignInit /\ Parked("pack")

UnpackNext == DoUnpack /\ Frame("pack")

SpecUnpack == UnpackSpecInit /\ [][UnpackNext]_vars

BuildSpecInit == BuildInit /\ Parked("build")

BuildNext == BuildStep /\ Frame("build")

SpecBuild == BuildSpecInit /\ [][BuildNext]_vars

MetaSpecInit == MetaInit /\ Parked("meta")

MetaNext == MetaStep /\ Frame("meta")

SpecMeta == MetaSpecInit /\ [][MetaNext]_vars

ProjectSpecInit == ProjectInit /\ Parked("project")

ProjectNext == ProjectStep /\ Frame("project")

SpecProject == ProjectSpecInit /\ [][ProjectNext]_vars

BlockSpecInit == BlockInit /\ Parked("block")

BlockNext == BlockStep /\ Frame("block")

SpecBlock == BlockSpecInit /\ [][BlockNext]_vars

ParseSpecInit == ParseInit /\ Parked("parse")

ParseNext == ParseStep /\ Frame("parse")

SpecParse == ParseSpecInit /\ [][ParseNext]_vars

\* The parser runs on: no step of it waits for anything.
SpecParseLive == SpecParse /\ WF_vars(ParseNext)

DepSpecInit == DepInit /\ Parked("deps")

DepNext == DepStep /\ Frame("deps")

SpecDeps == DepSpecInit /\ [][DepNext]_vars

\* The declarations that name X, as the language defines a match.
MatchingUses(X) ==
    { i \in 1..Len(uses) :
        \/ uses[i].rename # None /\ uses[i].rename = X
        \/ uses[i].rename = None /\ uses[i].name[Len(uses[i].name)] = X }

LastOf(S) == CHOOSE i \in S : \A j \in S : j <= i

\* The full name a single-segment name X stands for.
ExpectedFullName(X) ==
    IF MatchingUses(X) # {}
    THEN PathToString(uses[LastOf(MatchingUses(X))].name)
    ELSE IF namespace = "" THEN "self." \o X
    ELSE "self." \o namespace \o "." \o X

\* C3: a single-segment name X resolves to the path of the last matching
\* `use` in declaration order, to self.N.X (self.X for an empty namespace)
\* when none matches, and the result is the resolver's entry under that
\* full name, undefined when there is none; Type::resolve and
\* Codegen::resolve agree on it.
C3_LastUseWins ==
    Len(resolved.path) = 1 =>
        LET X == resolved.path[1] IN
        /\ resolved.ty.name = ExpectedFullName(X)
        /\ resolved.ty.ty = (IF ExpectedFullName(X) \in DOMAIN types
                             THEN types[ExpectedFullName(X)] ELSE Undefined)
        /\ resolved.cg = resolved.ty

\* X resolved with two matching declarations, a.X and then self.n.X, and
\* the resolver knows both.
C3_Witness ==
    /\ resolved.path = <<"X">>
    /\ Cardinality(MatchingUses("X")) = 2
    /\ uses[1] = [name |-> <<"a", "X">>, rename |-> None]
    /\ uses[2] = [name |-> <<"self", "n", "X">>, rename |-> None]
    /\ "a.X" \in DOMAIN types
    /\ resolved.ty.name = "self.n.X"
    /\ resolved.ty.ty.kind = "Internal"

\* ------------------------------------------------------------------------
\* Properties of symbol mangling.
\* ------------------------------------------------------------------------

DeclView(decl) == [is_class |-> decl.is_class, name |-> decl.name, funcs |-> Range(decl.funcs)]

DeclViews(decls) == {DeclView(decls[i]) : i \in 1..Len(decls)}

\* The declarations Library::open reads from the types file of an unpacked library.
TypesOf(out) == OpenTypes(out.types, 0, << >>)

\* C5: unpacking the file pack wrote succeeds, meta.yml carries the name
\* and version of the package and, for every library target of the package
\* and no other, libs/<target> holds a types file that decodes to the same
\* set of type declarations and a deps.yml with the same set of dependencies.
C5_UnpackOfPack ==
    unpacked # NotUnpacked =>
        /\ unpacked.ok
        /\ unpacked.val.meta = package.meta
        /\ Len(unpacked.val.libs) = Len(package.libs)
        /\ \A i \in 1..Len(package.libs) :
              \E j \in 1..Len(unpacked.val.libs) :
                 LET lib == package.libs[i]
                     out == unpacked.val.libs[j]
                 IN  /\ out.target = lib.target
                     /\ TypesOf(out).ok
                     /\ DeclViews(TypesOf(out).val) = DeclViews(lib.types)
                     /\ Range(out.deps) = Range(lib.deps)

\* A package of two libraries, a bundled one and a system one, each with
\* two types and one of them with dependencies, packed and unpacked.
C5_Witness ==
    /\ unpacked.ok
    /\ Len(package.libs) = 2
    /\ package.libs[1].bin.system /\ ~package.libs[2].bin.system
    /\ Len(package.libs[1].types) = 2 /\ Len(package.libs[2].types) = 2
    /\ Len(package.libs[2].deps) = MaxDeps
    /\ Len(unpacked.val.libs) = 2

\* C6: an executable build succeeds only if exactly one function marked
\* @entry was lowered: an @entry function lowered after one is recorded is
\* rejected with 'more than one entry point has been defined', and an
\* executable module closed with no entry recorded is not emitted.
C6_ExactlyOneEntry ==
    /\ (executable /\ status = "emitted") => entry # ""
    /\ (built.f.attrs.entry /\ built.before # "" /\ built.res \notin {"none", "skipped"})
         => /\ built.res # "ok"
            /\ entry = built.before
            /\ built.msg \in {"more than one entry point has been defined",
                              "the entry point must have nitro.Int32 as a return type",
                              "the entry point must have zero parameters"}
                 => built.msg = "more than one entry point has been defined"

\* C7: an @entry function is recorded as the entry point only if it has no
\* parameters and returns the i32 primitive; @entry fn Main(x: Int32): Int32
\* lowered into a new Codegen is rejected with the zero-parameters error.
C7_EntrySignature ==
    /\ entry # built.before
         => /\ built.res = "ok"
            /\ built.f.attrs.entry
            /\ built.f.params = << >>
            /\ built.f.ret = Int32
            /\ entry = built.symbol
    /\ (built.f.attrs.entry /\ built.f.name = "Main" /\ built.f.params = <<Int32>>
        /\ built.f.ret = Int32 /\ built.res # "none" /\ module = << >>)
         => /\ built.res = "err"
            /\ built.msg = "the entry point must have zero parameters"
            /\ entry = ""

C7_Witness ==
    /\ built.f = Func(NoCondition, FALSE, TRUE, "Main", <<Int32>>, Int32, TRUE)
    /\ built.msg = "the entry point must have zero parameters"
    /\ status = "failed"
    /\ entry = ""

\* How many functions of the module have the symbol of the last call,
\* the one that call added not counted.
ExistedBefore ==
    Cardinality({ i \in 1..Len(module) : module[i].symbol = built.symbol })
        > (IF built.added THEN 1 ELSE 0)

TargetName == [os \in TargetOs |->
                 IF os = "Darwin" THEN "darwin"
                 ELSE IF os = "Linux" THEN "linux" ELSE "win32"]

\* The conditions C9 is about.
TableForms ==
    { c \in Conditions :
        \/ ~c.some
        \/ Len(c.exprs) = 1 /\ c.exprs[1].kind = "Value"
             /\ c.exprs[1].value \in {"unix", "darwin", "linux", "win32"}
        \/ Len(c.exprs) = 3 /\ c.exprs[1] = Value("os")
             /\ c.exprs[2] \in {Equal, NotEqual} /\ c.exprs[3].kind = "String" }

\* What C9 says a condition of these forms evaluates to.
Table(c, os) ==
    CASE ~c.some -> TRUE
      [] c.some /\ Len(c.exprs) = 1 ->
           IF c.exprs[1].value = "unix" THEN os \in {"Darwin", "Linux"}
           ELSE c.exprs[1].value = TargetName[os]
      [] c.some /\ Len(c.exprs) = 3 ->
           IF c.exprs[2] = Equal THEN c.exprs[3].value = TargetName[os]
           ELSE ~(c.exprs[3].value = TargetName[os])

\* The same comparison with the other operator.
Negated(c) ==
    Condition(<<c.exprs[1], IF c.exprs[2] = Equal THEN NotEqual ELSE Equal, c.exprs[3]>>)

\* C9: a function is skipped exactly when its @if is false by the table:
\* no @if is true, unix is Darwin or Linux, a bare name and os == "s"
\* compare with the name of the target's OS, and os != "s" is the negation
\* of os == "s" on the same target.
C9_ConditionTable ==
    (built.res # "none" /\ built.f.attrs.condition \in TableForms)
        => /\ (built.res = "skipped") <=> ~Table(built.f.attrs.condition, target)
           /\ Len(built.f.attrs.condition.exprs) = 3
                => /\ run_condition(Negated(built.f.attrs.condition), target)
                        \in {"true", "false"}
                   /\ (run_condition(Negated(built.f.attrs.condition), target) = "true")
                        <=> (built.res = "skipped")

C9_Witness ==
    /\ built.f.attrs.condition = Condition(<<Value("os"), NotEqual, String("linux")>>)
    /\ target = "Linux"
    /\ built.res = "skipped"

WindowsCondition == Condition(<<Value("os"), Equal, String("windows")>>)

Win32Condition == Condition(<<Value("os"), Equal, String("win32")>>)

\* C10 as stated: the functions of a type under @if(os == "windows") are
\* lowered into the module when the target is Win32 and are not for Linux
\* and Darwin.
C10_WindowsOnWin32 ==
    /\ (ty.res # "none" /\ ty.condition = WindowsCondition)
         => (ty.res = "entered" <=> target = "Win32")
    /\ (built.res # "none" /\ built.f.attrs.condition = WindowsCondition)
         => (built.res # "skipped" <=> target = "Win32")

\* C10, with the name the target has: the functions of a type under
\* @if(os == "win32") are lowered into the module when the target is Win32
\* and are not for Linux and Darwin; under @if(os == "windows") they are
\* lowered for no target.
C10_Win32OnWin32 ==
    /\ (ty.res # "none" /\ ty.condition = Win32Condition)
         => (ty.res = "entered" <=> target = "Win32")
    /\ (built.res # "none" /\ built.f.attrs.condition = Win32Condition)
         => (built.res # "skipped" <=> target = "Win32")
    /\ (built.res = "ok" /\ Win32Condition \in {ty.condition, built.f.attrs.condition})
         => /\ target = "Win32"
            /\ \E i \in 1..Len(module) : module[i].symbol = built.symbol
    /\ (ty.res # "none" /\ ty.condition = WindowsCondition) => ty.res = "skipped"
    /\ (built.res # "none" /\ built.f.attrs.condition = WindowsCondition)
         => built.res = "skipped"

C10_Witness ==
    /\ target = "Win32"
    /\ ty.condition = Win32Condition
    /\ built.res = "ok"
    /\ \E i \in 1..Len(module) : module[i].symbol = built.symbol

\* C11: a condition that is not of a recognised form (unix, the name of
\* an operating system, os == "s", os != "s") is rejected with an error
\* when it is evaluated; it is never true and never false.
C11_OtherFormsRejected ==
    (built.res # "none" /\ built.f.attrs.condition \notin TableForms)
        => built.res = "err"

\* The tag of the entry that follows the header of the file, or that
\* follows the magic when the file has no header.
FirstTag ==
    IF Has(file, 0, Len(Header) + 1) /\ Take(file, 0, Len(Header)) = Header
    THEN file[Len(Header) + 1]
    ELSE file[5]

\* C12: unpack rejects a file that does not begin with 0x7F 'N' 'P' 'K',
\* handles the tags NAME, VERSION, DATE, EXE and LIB, and returns
\* UnknownEntry(tag) for every tag outside 0..5 and for no tag inside.
C12_UnpackDispatch ==
    unpacked # NotUnpacked
        => /\ (~Has(file, 0, 4) \/ Take(file, 0, 4) # Magic) => ~unpacked.ok
           /\ (unpacked.err = "UnknownEntry") => unpacked.val[1] \notin 0..5
           /\ (Has(file, 0, 5) /\ Take(file, 0, 4) = Magic /\ FirstTag \notin 0..5)
                => unpacked.err = "UnknownEntry" /\ unpacked.val = <<FirstTag>>

\* The entries of binaries in a package file, counted by the container
\* layout from offset p on: -1 when the bytes are not entries that end
\* with END as the last byte of the file, or when the bytes after a
\* length are not that many bytes of one zstd frame.
RECURSIVE BinaryEntries(_, _, _)
BinaryEntries(b, p, n) ==
    IF ~Has(b, p, 1) THEN -1
    ELSE CASE b[p + 1] = 0 -> IF p + 1 = Len(b) THEN n ELSE -1
           [] b[p + 1] = 1 -> BinaryEntries(b, p + 33, n)
           [] b[p + 1] \in {2, 3} -> BinaryEntries(b, p + 9, n)
           [] b[p + 1] \in {4, 5} ->
                IF ~Has(b, p + 17, 2) \/ ~Has(b, p + 19 + 40 * U16From(Take(b, p + 17, 2)), 8)
                THEN -1
                ELSE IF Take(b, p + 23 + 40 * U16From(Take(b, p + 17, 2)), 4) # <<40, 181, 47, 253>>
                THEN -1
                ELSE BinaryEntries(b,
                         p + 23 + 40 * U16From(Take(b, p + 17, 2))
                           + U32From(Take(b, p + 19 + 40 * U16From(Take(b, p + 17, 2)), 4)),
                         n + 1)
           [] OTHER -> -1

\* C13: pack writes one entry for each executable and each library of the
\* package, each with the target, the dependencies, the length of the
\* frame that follows and the frame, and the file ends with END.
C13_EntryPerBinary ==
    file # << >> => BinaryEntries(file, 4, 0) = Len(package.exes) + Len(package.libs)

\* A declaration with every field of it, the functions as a set.
DeclFields(decl) ==
    [is_class |-> decl.is_class, attrs |-> decl.attrs, name |-> decl.name,
     funcs |-> Range(decl.funcs)]

\* C14: a type declaration read back from what serialize wrote equals the
\* declaration in every field: struct or class, name, attributes (public,
\* ext, repr) and the functions with their names, parameters and types.
C14_DeclRoundTrip ==
    (unpacked # NotUnpacked /\ unpacked.ok) =>
        \A i \in 1..Len(package.libs) :
            \A j \in 1..Len(unpacked.val.libs) :
                unpacked.val.libs[j].target = package.libs[i].target
                    => /\ TypesOf(unpacked.val.libs[j]).ok
                       /\ {DeclFields(TypesOf(unpacked.val.libs[j]).val[k]) :
                              k \in 1..Len(TypesOf(unpacked.val.libs[j]).val)}
                            = {DeclFields(package.libs[i].types[k]) :
                                  k \in 1..Len(package.libs[i].types)}

\* A valid package name: 1 to 32 bytes, the first in a..z, the others in
\* a..z or 0..9.
ValidName(str) ==
    /\ Len(str) \in 1..32
    /\ str[1] \in 97..122
    /\ \A i \in 2..Len(str) : str[i] \in (97..122) \cup (48..57)

\* The bytes of a name entry before its first zero.
UpToZero(b) ==
    SubSeq(b, 1, CHOOSE n \in 0..Len(b) :
                    /\ \A i \in 1..n : b[i] # 0
                    /\ n < Len(b) => b[n + 1] = 0)

\* C15: from_bin(to_bin(n)) is n for every valid name n, and from_str and
\* from_bin accept the valid names only.
C15_NameRoundTrip ==
    /\ parsed.done => (parsed.ok <=> ValidName(cand))
    /\ parsed.ok => parsed.val = cand
    /\ (parsed.ok /\ decoded.done) => (decoded.ok /\ decoded.val = cand)
    /\ decoded.done => (decoded.ok <=> ValidName(UpToZero(nbin)))

C15_Witness ==
    /\ Len(cand) = 32
    /\ parsed.ok
    /\ nbin = cand
    /\ decoded.ok
    /\ decoded.val = cand

\* C16: to_bin(v) is major << 32 | minor << 16 | patch, every field a
\* 16-bit digit of the u64 and the digit above them zero, and
\* from_bin(to_bin(v)) is v.
C16_VersionRoundTrip ==
    /\ vbin # << >>
         => /\ vbin = <<0, pver.major, pver.minor, pver.patch>>
            /\ \A i \in 1..4 : vbin[i] \in 0..65535
            /\ U64Bytes(vbin) = <<0, 0>> \o U16Bytes(pver.major)
                                  \o U16Bytes(pver.minor) \o U16Bytes(pver.patch)
    /\ vback # NoVersion => vback = pver

C16_Witness ==
    /\ pver = [major |-> 65535, minor |-> 256, patch |-> 1]
    /\ vbin # << >>
    /\ vback = pver

RECURSIVE Repeat(_, _)
Repeat(c, n) == IF n = 0 THEN "" ELSE c \o Repeat(c, n - 1)

\* A dotted name in length-prefixed form.
RECURSIVE TypePath(_)
TypePath(segs) ==
    IF segs = << >> THEN ""
    ELSE ToString(Len(segs[1])) \o segs[1] \o TypePath(Tail(segs))

ExternalRef(pkg) ==
    "E" \o ToString(Len(pkg.name)) \o pkg.name
    \o (IF pkg.ver # 0 THEN "V" \o ToString(pkg.ver) ELSE "") \o "T"

\* A type reference as the grammar gives it: S<path> for an internal
\* struct, C<pkg-or-S><path> for a class, E<pkg>T<path> for an external
\* basic type.
GrammarRef(t) ==
    CASE t.tag = "Unit" -> Repeat("P", t.ptr) \o "U"
      [] t.tag = "Never" -> "N"
      [] t.tag = "Class" ->
            Repeat("P", t.ptr) \o "C"
            \o (IF t.pkg.some THEN ExternalRef(t.pkg) ELSE "S") \o TypePath(t.name)
      [] t.tag = "Struct" ->
            Repeat("P", t.ptr)
            \o (IF t.pkg.some THEN ExternalRef(t.pkg) ELSE "S") \o TypePath(t.name)

\* A type reference with the struct marker S in front of the package-or-S
\* of a struct, as C is in front of that of a class.
MarkedRef(t) ==
    CASE t.tag = "Unit" -> Repeat("P", t.ptr) \o "U"
      [] t.tag = "Never" -> "N"
      [] OTHER ->
            Repeat("P", t.ptr) \o (IF t.tag = "Class" THEN "C" ELSE "S")
            \o (IF t.pkg.some THEN ExternalRef(t.pkg) ELSE "S") \o TypePath(t.name)

\* prefix, type path and F<len><name>0 of a symbol
SymbolHead(s) ==
    (IF s.lib.some THEN "_NEF" \o ToString(Len(s.lib.name)) \o s.lib.name
                        \o (IF s.lib.ver # 0 THEN "V" \o ToString(s.lib.ver) ELSE "")
                        \o "T"
     ELSE "_NIF")
    \o TypePath(s.ty) \o "F" \o ToString(Len(s.func.name)) \o s.func.name \o "0"

RECURSIVE Refs(_, _)
Refs(tys, marked) ==
    IF tys = << >> THEN ""
    ELSE (IF marked THEN MarkedRef(tys[1]) ELSE GrammarRef(tys[1]))
         \o Refs(Tail(tys), marked)

\* C17 as stated: a symbol is the prefix, the type path, F<len><name>0, the
\* return type reference and the parameters' references in order, with
\* S<path> for an internal struct and E<pkg>T<path> for an external type.
C17_GrammarLayout ==
    \A s \in symbols :
        s.symbol = SymbolHead(s) \o Refs(<<s.func.ret>> \o s.func.params, FALSE)

\* C17: a symbol is the prefix, the type path, F<len><name>0, the return
\* type reference and the parameters' references in order, where a struct
\* or class reference is its pointers, S or C, then S for an internal type
\* or E<len><pkg>[V<major>]T for an external one, then the type path.
C17_MangleLayout ==
    \A s \in symbols :
        s.symbol = SymbolHead(s) \o Refs(<<s.func.ret>> \o s.func.params, TRUE)

C17_Witness ==
    \E s \in symbols :
        /\ s.lib.some
        /\ s.lib.ver # 0
        /\ s.func.ret.tag = "Struct"
        /\ Len(s.func.params) = 2
        /\ s.func.params[1].ptr = 1
        /\ s.func.params[2].tag = "Class"
        /\ s.symbol = "_NEF1aV1T1n1TF1f0SE1aV1T1TPSE1bT1n1TCE1aV1T1T"

\* C18: a function with a parameter of type () or ! is never lowered: the
\* call ends with an error and adds no function to the module.
C18_UnitOrNeverParamRejected ==
    (/\ built.res \notin {"none", "skipped"}
     /\ \E i \in 1..Len(built.f.params) :
            built.f.params[i] \in {SourceType(0, "()"), SourceType(0, "!")})
        => built.res = "err" /\ ~built.added

\* C19: `use a.b.Bar as Foo;` parses into a Use with the path a.b.Bar and
\* the rename Foo, and a `use` without a rename parses with no rename.
C19_UseRename ==
    /\ used.src = <<"a", ".", "b", ".", "Bar", "as", "Foo", ";">>
         => used.res = "ok" /\ used.name = <<"a", "b", "Bar">> /\ used.rename = "Foo"
    /\ used.src = <<"a", ".", "b", ".", "Bar", ";">>
         => used.res = "ok" /\ used.name = <<"a", "b", "Bar">> /\ used.rename = None

\* C20: the evaluation of an @if condition the parser accepted ends with
\* true, false or a SyntaxError: no call of Function::build is cut short
\* by a todo!() or an unwrap() of run_condition.
C20_ConditionNeverAborts ==
    built.res = "panic" => run_condition(built.f.attrs.condition, target) \notin Panics

\* C21: Project::build on a loaded project ends with a Package or a
\* ProjectBuildError: the assertion of Package::new never fails.
C21_PackageNotEmpty == ended # "panic in Package::new"

\* C22: every library build comes before every executable build; a library
\* build is given the library's internal types only, and the executable
\* build for target T the executable's internal types and the types
\* exported by the library built for T, under the package's own name.
C22_ResolverPerBuild ==
    /\ \A i, j \in 1..Len(buildLog) :
           (buildLog[i].exe /\ ~buildLog[j].exe) => j < i
    /\ \A i \in 1..Len(buildLog) :
           LET b == buildLog[i] IN
           IF ~b.exe
           THEN /\ DOMAIN b.resolver = {"self." \o n : n \in proj.lib}
                /\ \A k \in DOMAIN b.resolver : b.resolver[k] = "Internal"
           ELSE /\ DOMAIN libsOut \in {{}, PrimitiveTargets}
                /\ DOMAIN b.resolver =
                     {"self." \o n : n \in proj.exe}
                     \cup (IF b.target \in DOMAIN libsOut
                           THEN {proj.name \o "." \o n : n \in libsOut[b.target]}
                           ELSE {})
                /\ \A k \in DOMAIN b.resolver :
                     b.resolver[k] = (IF k \in {"self." \o n : n \in proj.exe}
                                      THEN "Internal" ELSE "External")

\* The executable for the second target was built with the types of the
\* second library, which differ from those of the first.
C22_Witness ==
    /\ Len(buildLog) >= 6
    /\ buildLog[6].exe
    /\ buildLog[6].target = 2
    /\ libsOut[1] # libsOut[2]
    /\ libsOut[2] # {}
    /\ proj.exe # {}

\* C30: no internal key self.<fqtn> equals an external key
\* <package>.<type>: populate_external_types never finds its key taken.
C30_KeysDisjoint == ended # "panic in populate_external_types"

\* C23: a basic block is released exactly once: no block is deleted twice
\* or deleted after a function took it, and once the function that created
\* it has returned it either belongs to a function and was not deleted, or
\* was deleted once.
C23_BlockReleasedOnce ==
    \A i \in 1..Len(blocks) :
        /\ blocks[i].deleted <= 1
        /\ ~(blocks[i].owner # "" /\ blocks[i].deleted > 0)
        /\ (i < Len(blocks) \/ scope = Idle)
             => /\ ~blocks[i].alive
                /\ (blocks[i].owner # "") # (blocks[i].deleted = 1)

C23_Witness ==
    /\ scope = Idle
    /\ Len(blocks) = 2
    /\ blocks[1].owner = "foo"
    /\ blocks[2].owner = "_DllMainCRTStartup"
    /\ blocks[2].deleted = 0

\* C24: unpacking a LIB entry takes exactly the recorded length from the
\* package, never more, for a bundled and for a system library.
C24_EntryConsumed ==
    (unpacked # NotUnpacked /\ unpacked.ok) =>
        \A i \in 1..Len(unpacked.val.libs) :
            unpacked.val.libs[i].eaten = unpacked.val.libs[i].len

\* The `struct` and `class` keywords of the source, and the `impl` keywords.
TypeKeywords == { i \in 1..Len(lex.src) : lex.src[i] \in {"struct", "class"} }

ImplKeywords == { i \in 1..Len(lex.src) : lex.src[i] = "impl" }

\* C25: a file that parses holds at most one type definition, named as the
\* file stem, and every impl of it comes after the definition and names
\* that type; at the top level a second `struct X` or `class X` is the
\* error 'multiple type definition in a source file'.
C25_OneTypePerFile ==
    /\ [](/\ sourceFile.ty # None => sourceFile.ty = sourceFile.stem
          /\ sourceFile.impls > 0 => sourceFile.ty # None
          /\ parser.outcome = "ok" =>
                /\ Cardinality(TypeKeywords) <= 1
                /\ \A i \in TypeKeywords : lex.src[i + 1] = sourceFile.stem
                /\ \A i \in ImplKeywords :
                      /\ \E d \in TypeKeywords : d < i
                      /\ lex.src[i + 1] = sourceFile.stem)
    /\ [][(/\ Parsing("parse_top")
           /\ sourceFile.ty # None
           /\ lex.next + 1 <= Len(lex.src)
           /\ lex.src[lex.next] \in {"struct", "class"}
           /\ IsTokenIdentifier(lex.src[lex.next + 1]))
          => parser'.outcome = "multiple type definition in a source file"]_vars

\* A file with a type and an impl of it, stopped at a second definition.
C25_Witness ==
    /\ parser.outcome = "multiple type definition in a source file"
    /\ sourceFile.ty = "A"
    /\ sourceFile.impls = 1

\* C28: the parser comes to an end, with Ok or a SyntaxError, on every
\* source.
C28_ParseTerminates == <>(parser.outcome # "running")

\* The spans the lexer has made: those of the tokens handed out and that of
\* the token or SyntaxError the last next() returned.
SpansMade ==
    { toks[k].span : k \in 1..Len(toks) } \cup
    (IF lexRes.res \in {"tok", "err"} THEN {lexRes.span} ELSE {})

SpanValid(sp) ==
    /\ 0 <= sp.begin
    /\ sp.begin < sp.end
    /\ sp.end <= ByteLen(data)
    /\ ~ByteIsNewline(data, sp.begin)

\* C26: every span of a token or of a SyntaxError of the lexer lies in the
\* source with begin < end and does not begin at a line feed, no call of
\* Span::new fails its assertions, and the sum of two such spans has
\* begin < end.
C26_SpansValid ==
    /\ \A sp \in SpansMade : SpanValid(sp)
    /\ lexRes.res = "panic" => lexRes.why # "Span::new"
    /\ \A a, b \in SpansMade : SpanAdd(a, b).begin < SpanAdd(a, b).end

\* A two-byte identifier at the start, then a string that is not closed.
C26_Witness ==
    /\ lexRes.res = "err"
    /\ Len(toks) = 1
    /\ toks[1].span = [begin |-> 0, end |-> 2]
    /\ lexRes.span.begin > 0

====
